---- MODULE Spec2Model ----
(***************************************************************************)
(* Model of the workflow engine (lib/experiment_manager.py) and of the     *)
(* trace it writes (lib/experiment_trace.py).                              *)
(*                                                                         *)
(* Names.  A dotted part name is the sequence of its dot-separated         *)
(* components ("f.g.t" is <<"f","g","t">>), so that string concatenation   *)
(* with "." is \o and split(".")[-1] is the last component.  Python's None *)
(* and the empty string are the empty sequence.                            *)
(***************************************************************************)
EXTENDS Integers, Sequences, FiniteSets, TLC

\* ------------------------------------------------------------------ bounds
\* longest part path (number of at_part entries) of one run
MaxPath == 5
\* number of runs: the first is Normal, the later ones retrace the previous
MaxRuns == 3
\* data values are 0..MaxVal
MaxVal == 1
\* most set_output calls of one run_step
MaxWrites == 1
\* name resolution inputs: longest name (in components) and deepest flow stack
MaxNameLen == 2
MaxStack == 2
MaxVisits == 2
MaxEntries == 2
MaxRaw == 3

\* ------------------------------------------------------------- basic values
None == <<>>
Done == <<"done">>
Quit == <<"quit">>
COMMAND_NAMES == {Done, Quit}

Last(s) == s[Len(s)]
Front(s) == SubSeq(s, 1, Len(s) - 1)
IsPrefix(p, s) == Len(p) <= Len(s) /\ SubSeq(s, 1, Len(p)) = p

Keys == {"x"}
Vals == 0 .. MaxVal
initial_values == [k \in Keys |-> 0]

\* ------------------------------------------------------ the configured graph
\* config.part_configs in its (dict) order
PartOrder ==
    << <<"start">>, <<"ask">>, <<"b">>, <<"e">>, <<"f">>, <<"f", "g">>,
       <<"f", "g", "t">> >>
PartNames == {PartOrder[i] : i \in 1 .. Len(PartOrder)}

\* type_name of each configured part
TypeNameOf(n) ==
    CASE n \in {<<"start">>, <<"b">>, <<"f", "g", "t">>} -> "step_type"
      [] n = <<"ask">> -> "decision_type"
      [] OTHER -> "flow_type"
TypeNames == {"step_type", "decision_type", "flow_type"}

\* the base class of each part type
CategoryOf(t) ==
    CASE t = "step_type" -> "step"
      [] t = "decision_type" -> "decision"
      [] OTHER -> "flow"

\* config.next_part of each part: route name -> short name
NextPartOf(n) ==
    CASE n = <<"start">> -> [r \in {""} |-> <<"ask">>]
      [] n = <<"ask">> -> [r \in {"go", "in", "lost"} |->
                              CASE r = "go" -> <<"b">>
                                [] r = "in" -> <<"f">>
                                [] OTHER -> <<"nowhere">>]
      [] n = <<"b">> -> [r \in {""} |-> Quit]
      [] n = <<"f">> -> [r \in {""} |-> <<"b">>]
      [] n = <<"f", "g">> -> [r \in {""} |-> <<"b">>]
      [] n = <<"e">> -> [r \in {} |-> None]
      [] OTHER -> [r \in {""} |-> Done]

\* dict.get(key): None when the key is absent
Get(map, key) == IF key \in DOMAIN map THEN map[key] ELSE None

\* what decide_route of a Decision may return
RoutesOf(n) == {"go", "in", "lost", "other"}
\* what begin_flow of a Flow may return
FirstPartsOf(n) ==
    CASE n = <<"f">> -> {<<"g">>, None}
      [] n = <<"e">> -> {Done}
      [] OTHER -> {<<"t">>}

\* config.initial_part_name
InitialPartNames == {<<"start">>, <<"f">>}

\* ------------------------------------------------------------ trace entries
PartAddEntry(n) ==
    [event |-> "part_add", full_name |-> n,
     part_category |-> CategoryOf(TypeNameOf(n))]
PartRemoveEntry(n) == [event |-> "part_remove", full_name |-> n]
CustomEntry(event_type, event_data) ==
    [event |-> "custom", event_type |-> event_type, event_data |-> event_data]
ExperimentBeginEntry(d) == [event |-> "experiment_begin", experiment_data |-> d]
ExperimentEndEntry == [event |-> "experiment_end"]
AtPartEntry(n) == [event |-> "at_part", part_name |-> n]
\* an error entry that does not name the part
ErrorEntry_Unnamed(n) == [event |-> "error", part_name |-> None]
ErrorEntry(n) == [event |-> "error", part_name |-> n]
ResearcherDecisionEntry(s) == [event |-> "researcher_decision", next_part |-> s]
\* part_data of an entry: <<>> for None, <<"d">> for a saved dictionary
NoData == <<>>
StepEntry(n, before, after, part_data) ==
    [event |-> "step", step_name |-> n, data_before |-> before, data_after |-> after,
     part_data |-> part_data]
DecisionEntry(n, s) ==
    [event |-> "decision", decision_name |-> n, next_part |-> s, part_data |-> NoData]
FlowBeginEntry(n, s) ==
    [event |-> "flow_begin", flow_name |-> n, first_part |-> s, part_data |-> NoData]
FlowEndEntry(n) == [event |-> "flow_end", flow_name |-> n, part_data |-> NoData]

IsAtPart(e) == e.event = "at_part"
OfEvent(tr, ev) == SelectSeq(tr, LAMBDA e : e.event = ev)

\* PartPathPiece
PartPathPiece(part_name, part_data) == [part_name |-> part_name, part_data |-> part_data]

\* get_part_path lines 271-276: the index of the first entry after index i
\* that is not a custom entry, 0 when the trace ends first
NextPartEntry(tr, i) ==
    LET rest == {j \in i + 1 .. Len(tr) : tr[j].event # "custom"}
    IN  IF rest = {} THEN 0 ELSE CHOOSE j \in rest : \A k \in rest : j <= k

\* the entries that carry part_data (line 277)
PartDataEvents == {"step", "decision", "flow_begin", "flow_end"}

\* ExperimentTrace.get_part_path: one piece per at_part entry, in trace order,
\* with the part_data of the first entry after it that is not a custom entry
get_part_path(tr) ==
    LET at == SelectSeq([i \in 1 .. Len(tr) |-> i], LAMBDA i : IsAtPart(tr[i]))
    IN  [k \in 1 .. Len(at) |->
            LET j == NextPartEntry(tr, at[k])
            IN  PartPathPiece(tr[at[k]].part_name,
                    IF j # 0 /\ tr[j].event \in PartDataEvents
                    THEN tr[j].part_data ELSE NoData)]

\* ------------------------------------------------------------ name resolver
\* ExperimentManager._convert_to_short_name
convert_to_short_name(full_name) ==
    IF full_name = None \/ full_name \in COMMAND_NAMES
    THEN full_name
    ELSE << Last(full_name) >>

\* a resolver that takes the outermost open flow as the current flow
get_current_flow_full_name_Outermost(stack) ==
    IF Len(stack) > 0 THEN Head(stack) ELSE <<>>
\* ExperimentManager._get_current_flow_full_name
get_current_flow_full_name(stack) ==
    IF Len(stack) > 0 THEN Last(stack) ELSE <<>>

\* a resolver that qualifies the reserved commands like any other name
convert_to_full_name_QualifiesCommands(short_name, stack) ==
    LET flow_full_name == get_current_flow_full_name(stack)
    IN  IF short_name = None \/ flow_full_name = <<>>
        THEN short_name
        ELSE flow_full_name \o short_name
\* ExperimentManager._convert_to_full_name
convert_to_full_name(short_name, stack) ==
    LET flow_full_name == get_current_flow_full_name(stack)
    IN  IF short_name = None \/ short_name \in COMMAND_NAMES \/ flow_full_name = <<>>
        THEN short_name
        ELSE flow_full_name \o short_name

\* a listing that offers every part below the flow, however deep
get_flow_parts_short_names_Deep(parts, flow_full_name) ==
    {<< Last(n) >> : n \in {m \in parts :
        IsPrefix(flow_full_name, m) /\ Len(m) > Len(flow_full_name)}}
\* ExperimentManager._get_flow_parts_short_names
get_flow_parts_short_names(parts, flow_full_name) ==
    IF flow_full_name = <<>>
    THEN {n \in parts : Len(n) = 1}
    ELSE {<< Last(n) >> : n \in {m \in parts :
              IsPrefix(flow_full_name, m) /\ Len(m) = Len(flow_full_name) + 1}}

\* the answers ExperimentManager._get_next_from_researcher accepts
ValidAnswers(parts, stack) ==
    get_flow_parts_short_names(parts, get_current_flow_full_name(stack))
        \cup COMMAND_NAMES

\* ------------------------------------------------------------ the data store
\* one set_output call: [name |-> key, value |-> v]
WriteSeqs ==
    UNION {[1 .. n -> [name : Keys, value : Vals]] : n \in 0 .. MaxWrites}

RECURSIVE ApplyWrites(_, _)
\* ExperimentManager._set_data, once per set_output call
ApplyWrites(data, ws) ==
    IF ws = <<>> THEN data
    ELSE ApplyWrites([data EXCEPT ![ws[1].name] = ws[1].value], SubSeq(ws, 2, Len(ws)))

\* config.input_names of each part: argument name -> experiment data name
InputNamesOf(n) ==
    IF n = <<"start">> THEN [a \in {"arg"} |-> "x"] ELSE [a \in {} |-> "x"]
\* the arguments a run_step may ask get_input for
ArgumentNames == {"arg"}

\* the outcome of a get_input call: raised ConfigError or returned value
\* (<<>> for None), and the experiment data name read ("" when none was)
InputRaised == [raised |-> TRUE, read |-> "", value |-> <<>>]
InputReturned(read, value) == [raised |-> FALSE, read |-> read, value |-> value]

\* a get_input that returns None for any unmapped argument
get_input_UnmappedIsNone(input_names, argument_name, optional, can_use_global, staging) ==
    LET mapped == argument_name \in DOMAIN input_names
        global_name == IF mapped THEN input_names[argument_name] ELSE argument_name
    IN  IF ~mapped /\ ~can_use_global
        THEN InputReturned("", <<>>)
        ELSE InputReturned(global_name,
                 IF global_name \in DOMAIN staging
                 THEN << staging[global_name] >> ELSE <<>>)
\* _Part.get_input with allow = None, reading through ExperimentManager._get_data
get_input(input_names, argument_name, optional, can_use_global, staging) ==
    LET mapped == argument_name \in DOMAIN input_names
        global_name == IF mapped THEN input_names[argument_name] ELSE argument_name
    IN  IF ~mapped /\ ~can_use_global
        THEN IF optional THEN InputReturned("", <<>>) ELSE InputRaised
        ELSE InputReturned(global_name,
                 IF global_name \in DOMAIN staging
                 THEN << staging[global_name] >> ELSE <<>>)

\* what run_step did about inputs: no get_input call, or one call with its
\* arguments and outcome
NoInput == [called |-> FALSE]
InputCall(argument_name, optional, can_use_global, outcome) ==
    [called |-> TRUE, argument_name |-> argument_name, optional |-> optional,
     can_use_global |-> can_use_global, outcome |-> outcome]
\* the get_input calls the run_step of part n may make on the staging copy
InputCallsOf(n, staging) ==
    {NoInput} \cup
    {InputCall(a, o, g, get_input(InputNamesOf(n), a, o, g, staging)) :
        a \in ArgumentNames, o \in BOOLEAN, g \in BOOLEAN}

\* a run that skipped the copy of line 193
StartStaging_NoCopy(committed, staging) == staging

\* _run_part line 193: the staging copy a part starts with
StartStaging(committed, staging) == committed

\* _run_part line 240: the committed store after a successful part
CommitOnSuccess(committed, staging) == staging

\* an except branch that committed the staging copy
CommittedAfterFailure_Commits(committed, staging) == staging

\* _run_part lines 241-252: the committed store after a failed part
CommittedAfterFailure(committed, staging) == committed

\* a handler that kept the configured next part after an exception
NextAfterFailure_Configured(n) == Get(NextPartOf(n), "")

\* _run_part lines 250-251 and _end_flow lines 284-285: after an exception
\* the researcher is asked
NextAfterFailure(n) == None

\* a top-level done that asks the researcher
NextAfterTopLevelDone_Asks == None

\* _end_flow lines 286-288: done at the top level ends the experiment
NextAfterTopLevelDone == Quit

\* _run_part lines 209-214: the next short name after a Decision returned r
NoneRoute == "~None"
\* a lookup that falls back to the route name when next_part has no such key
DecisionNext_FallsBackToRoute(n, r) ==
    IF r = NoneRoute THEN None
    ELSE IF << r >> \in COMMAND_NAMES THEN << r >>
    ELSE IF r \in DOMAIN NextPartOf(n) THEN NextPartOf(n)[r] ELSE << r >>
DecisionNext(n, r) ==
    IF r = NoneRoute THEN None
    ELSE IF << r >> \in COMMAND_NAMES THEN << r >>
    ELSE Get(NextPartOf(n), r)
DecisionReturns(n) == RoutesOf(n) \cup {NoneRoute, "done", "quit"}

\* what decide_route handed back: the value itself (a route name, a command
\* or None), or a DecisionRoute object with its two attributes
Returned(r) == [object |-> FALSE, route_name |-> r, can_use_part_name |-> FALSE]
DecisionRoute(r, can_use_part_name) ==
    [object |-> TRUE, route_name |-> r, can_use_part_name |-> can_use_part_name]
NoDecision == Returned("~NoDecision")

\* the DecisionRoute objects a ConditionalDecision may return: a route of
\* next_part and a bare part name, both with can_use_part_name set
DecisionRoutesOf(n) == {DecisionRoute(r, TRUE) : r \in {"go", "b"}}

\* _run_part lines 210-214 for a DecisionRoute object: the object is neither
\* None nor a member of COMMAND_NAMES, and next_part.get(object) finds no
\* such key among the route names, whatever the object's attributes are
DecisionNextOfObject(n, route) == None

\* _run_part lines 209-214: the next short name for whatever was returned
DecisionNextOf(n, ret) ==
    IF ret.object THEN DecisionNextOfObject(n, ret)
    ELSE DecisionNext(n, ret.route_name)

\* ------------------------------------------------------------- retrace rules
\* a lookup that hands the part the data of the previous index
OldTracePartData_Previous(index, old) ==
    IF index < Len(old) /\ index > 0 THEN old[index].part_data ELSE NoData
\* run lines 87-89: the part_data of the history at this index, None past it
OldTracePartData(index, old) ==
    IF index < Len(old) THEN old[index + 1].part_data ELSE NoData

\* what the run_step of part n passes to save_data_to_trace_entry before it
\* returns: the step "start" saves a dictionary, as a TerminalStep does, and
\* no other part calls it (NoData)
PartDataOf(n) == IF n = <<"start">> THEN <<"d">> ELSE NoData

\* a path check that stops one entry before the end of the history
PathDeviation_StopsEarly(index, old, live) ==
    index < Len(old) - 1 /\ old[index + 1].part_name # live

\* run lines 80-81: the live name differs from the history at this index
PathDeviation(index, old, live) ==
    index < Len(old) /\ old[index + 1].part_name # live

\* a history test that gives up one entry too early
HasHistoricalNext_OffByOne(index, old) == index < Len(old) - 2

\* run lines 104 and 126: the history has an entry after this index
HasHistoricalNext(index, old) == index < Len(old) - 1

\* a Continue run that asks at every quit at or after the tail
AtContinueTail_OrLater(m, index, old) == m = "continue" /\ index >= Len(old) - 1

\* run lines 109-110: a quit at the tail of the history may be continued
AtContinueTail(m, index, old) == m = "continue" /\ index = Len(old) - 1

\* run lines 106-108 and 128-130: the past researcher's decision
HistoricalNext(index, old) == convert_to_short_name(old[index + 2].part_name)

\* ------------------------------------------------------------------- state
VARIABLES
    mode,                   \* ExperimentMode of this run
    old_part_path,          \* old_trace.get_part_path(), <<>> in Normal mode
    old_mode,               \* mode of the run that wrote the old trace
    runs,                   \* number of runs started so far
    part_types,             \* config.part_types: the registered type names
    initial_part_name,      \* config.initial_part_name
    pc,                     \* position of run()
    route_name,             \* what decide_route returned in the last step
    input_call,             \* the get_input call run_step made in the last step
    old_trace_part_data,    \* what load_data_from_retrace_entry returns
    parsed_input,           \* the entries _parse_input_trace built from a file
    path_index,
    current_part_full_name,
    flow_stack,
    experiment_data,        \* the committed data store
    new_experiment_data,    \* the staging copy
    experiment_parts,       \* names of the constructed parts
    trace,                  \* new_trace: the entries recorded by this run
    file,                   \* the trace output file
    prompts,                \* path indexes at which the operator was asked
    calls,                  \* part methods called by this run, in order
    monitor                 \* the TraceMonitor tailing the file, if there is one

vars == << mode, old_part_path, old_mode, runs, part_types, initial_part_name,
           pc, path_index, current_part_full_name, flow_stack, experiment_data,
           new_experiment_data, experiment_parts, trace, file, prompts, calls,
           route_name, input_call, old_trace_part_data, parsed_input,
           monitor >>

\* no TraceMonitor was started
NoMonitor == [pc |-> "none"]

config_vars == << part_types, initial_part_name >>
run_vars == << mode, old_part_path, old_mode, runs >>

\* a part method call: the data _get_data shows it, and the committed store
Call(m, n, ok) ==
    [m |-> m, part |-> n, ok |-> ok, saw |-> new_experiment_data,
     committed |-> experiment_data]
CallSeeing(m, n, ok, staging) ==
    [m |-> m, part |-> n, ok |-> ok, saw |-> staging,
     committed |-> experiment_data]

Init ==
    /\ mode = "normal"
    /\ old_part_path = <<>>
    /\ old_mode = "none"
    /\ runs = 1
    /\ part_types \in SUBSET TypeNames
    /\ initial_part_name \in InitialPartNames
    /\ pc = "init"
    /\ path_index = 0
    /\ current_part_full_name = None
    /\ flow_stack = <<>>
    /\ experiment_data = initial_values
    /\ new_experiment_data = initial_values
    /\ experiment_parts = {}
    /\ trace = <<>>
    /\ file = "unopened"
    /\ prompts = <<>>
    /\ calls = <<>>
    /\ route_name = NoDecision
    /\ input_call = NoInput
    /\ old_trace_part_data = NoData
    /\ parsed_input = <<>>
    /\ monitor = NoMonitor

\* ------------------------------------------------------- start of a run
\* a construction that accepts every type name
FirstBadPart_AcceptsAll(types) == 0
\* _construct_parts: index of the first part _add_part rejects, 0 if none
FirstBadPart(types) ==
    LET bad == {i \in 1 .. Len(PartOrder) : TypeNameOf(PartOrder[i]) \notin types}
    IN  IF bad = {} THEN 0 ELSE CHOOSE i \in bad : \A j \in bad : i <= j

\* run lines 69-77 with _begin_experiment_run, _build_output_dirs,
\* _construct_parts and _add_part
BeginExperimentRun ==
    /\ pc = "init"
    /\ LET k == FirstBadPart(part_types)
           n == IF k = 0 THEN Len(PartOrder) ELSE k - 1
           added == [i \in 1 .. n |-> PartAddEntry(PartOrder[i])]
       IN  /\ file' = "open"
           /\ flow_stack' = <<>>
           /\ experiment_data' = initial_values
           /\ new_experiment_data' = initial_values
           /\ experiment_parts' = {PartOrder[i] : i \in 1 .. n}
           /\ IF k = 0
              THEN /\ trace' = added \o << ExperimentBeginEntry(initial_values) >>
                   /\ pc' = "loop"
              ELSE /\ trace' = added
                   /\ pc' = "config_error"
    /\ path_index' = 0
    /\ current_part_full_name' = initial_part_name
    /\ route_name' = NoDecision
    /\ input_call' = NoInput
    /\ monitor' = monitor
    /\ old_trace_part_data' = old_trace_part_data
    /\ parsed_input' = parsed_input
    /\ UNCHANGED << run_vars, config_vars, prompts, calls >>

\* ------------------------------------------------------------ the run loop
\* run() is at the top of its loop and the path check of lines 80-85 passes
AtLoopTop ==
    /\ pc = "loop"
    /\ path_index < MaxPath
    /\ ~PathDeviation(path_index, old_part_path, current_part_full_name)

\* run lines 143-145
MoveTo(next_part_short_name, stack) ==
    /\ path_index' = path_index + 1
    /\ current_part_full_name' = convert_to_full_name(next_part_short_name, stack)

\* run lines 80-85, then ExperimentTrace.__exit__
PathDeviationAbort ==
    /\ pc = "loop"
    /\ PathDeviation(path_index, old_part_path, current_part_full_name)
    /\ pc' = "path_deviation"
    /\ file' = "finalized"
    /\ route_name' = NoDecision
    /\ input_call' = NoInput
    /\ monitor' = monitor
    /\ old_trace_part_data' = old_trace_part_data
    /\ parsed_input' = parsed_input
    /\ UNCHANGED << run_vars, config_vars, path_index, current_part_full_name,
                    flow_stack, experiment_data, new_experiment_data,
                    experiment_parts, trace, prompts, calls >>

\* run lines 103-108 and 116-121: quit inside the history
QuitFromHistory ==
    /\ AtLoopTop
    /\ current_part_full_name = Quit
    /\ HasHistoricalNext(path_index, old_part_path)
    /\ LET next_part_short_name == HistoricalNext(path_index, old_part_path)
       IN  /\ trace' = trace \o << AtPartEntry(current_part_full_name),
                                   ResearcherDecisionEntry(next_part_short_name) >>
           /\ MoveTo(next_part_short_name, flow_stack)
    /\ route_name' = NoDecision
    /\ input_call' = NoInput
    /\ monitor' = monitor
    /\ old_trace_part_data' = OldTracePartData(path_index, old_part_path)
    /\ parsed_input' = parsed_input
    /\ UNCHANGED << run_vars, config_vars, pc, flow_stack, experiment_data,
                    new_experiment_data, experiment_parts, file, prompts, calls >>

\* the operator is to be asked at a quit (lines 109-112) or at an
\* undecided or unknown name (lines 124-133)
ResearcherIsAsked ==
    /\ AtLoopTop
    /\ ~HasHistoricalNext(path_index, old_part_path)
    /\ \/ /\ current_part_full_name = Quit
          /\ AtContinueTail(mode, path_index, old_part_path)
       \/ /\ current_part_full_name \notin COMMAND_NAMES
          /\ \/ current_part_full_name = None
             \/ current_part_full_name \notin experiment_parts

\* _get_researcher_decision returns an accepted answer (lines 495-512)
AskResearcher ==
    /\ ResearcherIsAsked
    /\ \E val \in ValidAnswers(experiment_parts, flow_stack) :
          /\ trace' = trace \o << AtPartEntry(current_part_full_name),
                                  ResearcherDecisionEntry(val) >>
          /\ MoveTo(val, flow_stack)
    /\ prompts' = Append(prompts, path_index)
    /\ route_name' = NoDecision
    /\ input_call' = NoInput
    /\ monitor' = monitor
    /\ old_trace_part_data' = OldTracePartData(path_index, old_part_path)
    /\ parsed_input' = parsed_input
    /\ UNCHANGED << run_vars, config_vars, pc, flow_stack, experiment_data,
                    new_experiment_data, experiment_parts, file, calls >>

\* input() raises (end of input, interrupt): the exception leaves run()
\* through ExperimentTrace.__exit__
ResearcherInputFails ==
    /\ ResearcherIsAsked
    /\ trace' = Append(trace, AtPartEntry(current_part_full_name))
    /\ prompts' = Append(prompts, path_index)
    /\ pc' = "input_error"
    /\ file' = "finalized"
    /\ route_name' = NoDecision
    /\ input_call' = NoInput
    /\ monitor' = monitor
    /\ old_trace_part_data' = OldTracePartData(path_index, old_part_path)
    /\ parsed_input' = parsed_input
    /\ UNCHANGED << run_vars, config_vars, path_index, current_part_full_name,
                    flow_stack, experiment_data, new_experiment_data,
                    experiment_parts, calls >>

\* a quit that leaves the loop before the visit is recorded
QuitBreak_Unrecorded ==
    /\ AtLoopTop
    /\ current_part_full_name = Quit
    /\ ~HasHistoricalNext(path_index, old_part_path)
    /\ ~AtContinueTail(mode, path_index, old_part_path)
    /\ trace' = trace
    /\ pc' = "teardown"
    /\ route_name' = NoDecision
    /\ input_call' = NoInput
    /\ monitor' = monitor
    /\ old_trace_part_data' = OldTracePartData(path_index, old_part_path)
    /\ parsed_input' = parsed_input
    /\ UNCHANGED << run_vars, config_vars, path_index, current_part_full_name,
                    flow_stack, experiment_data, new_experiment_data,
                    experiment_parts, file, prompts, calls >>

\* run lines 113-115: leave the loop
QuitBreak ==
    /\ AtLoopTop
    /\ current_part_full_name = Quit
    /\ ~HasHistoricalNext(path_index, old_part_path)
    /\ ~AtContinueTail(mode, path_index, old_part_path)
    /\ trace' = Append(trace, AtPartEntry(current_part_full_name))
    /\ pc' = "teardown"
    /\ route_name' = NoDecision
    /\ input_call' = NoInput
    /\ monitor' = monitor
    /\ old_trace_part_data' = OldTracePartData(path_index, old_part_path)
    /\ parsed_input' = parsed_input
    /\ UNCHANGED << run_vars, config_vars, path_index, current_part_full_name,
                    flow_stack, experiment_data, new_experiment_data,
                    experiment_parts, file, prompts, calls >>

\* run lines 124-130 and 134-139: an undecided or unknown name inside the history
AskFromHistory ==
    /\ AtLoopTop
    /\ current_part_full_name \notin COMMAND_NAMES
    /\ current_part_full_name = None \/ current_part_full_name \notin experiment_parts
    /\ HasHistoricalNext(path_index, old_part_path)
    /\ LET next_part_short_name == HistoricalNext(path_index, old_part_path)
       IN  /\ trace' = trace \o << AtPartEntry(current_part_full_name),
                                   ResearcherDecisionEntry(next_part_short_name) >>
           /\ MoveTo(next_part_short_name, flow_stack)
    /\ route_name' = NoDecision
    /\ input_call' = NoInput
    /\ monitor' = monitor
    /\ old_trace_part_data' = OldTracePartData(path_index, old_part_path)
    /\ parsed_input' = parsed_input
    /\ UNCHANGED << run_vars, config_vars, pc, flow_stack, experiment_data,
                    new_experiment_data, experiment_parts, file, prompts, calls >>

\* an _end_flow that ends the outermost open flow
EndFlowResult_Outermost(ok) ==
    LET flow_part_full_name == Head(flow_stack)
    IN  [stack |-> Tail(flow_stack),
         entry |-> IF ok THEN FlowEndEntry(flow_part_full_name)
                         ELSE ErrorEntry(flow_part_full_name),
         next  |-> IF ok THEN Get(NextPartOf(flow_part_full_name), "")
                         ELSE NextAfterFailure(flow_part_full_name),
         call  |-> Call("end_flow", flow_part_full_name, ok)]

\* _end_flow lines 261-285: pop the innermost flow and call its end_flow,
\* which returns (ok) or raises; the result is the flow's next_part[""] or None
EndFlowResult(ok) ==
    LET flow_part_full_name == Last(flow_stack)
    IN  [stack |-> Front(flow_stack),
         entry |-> IF ok THEN FlowEndEntry(flow_part_full_name)
                         ELSE ErrorEntry(flow_part_full_name),
         next  |-> IF ok THEN Get(NextPartOf(flow_part_full_name), "")
                         ELSE NextAfterFailure(flow_part_full_name),
         call  |-> Call("end_flow", flow_part_full_name, ok)]

\* a done that resolves the next name against the stack before the pop
DoneEndsFlow_ResolvesBeforePop ==
    /\ AtLoopTop
    /\ current_part_full_name = Done
    /\ Len(flow_stack) > 0
    /\ \E ok \in BOOLEAN :
          LET r == EndFlowResult(ok)
          IN  /\ flow_stack' = r.stack
              /\ trace' = trace \o << AtPartEntry(current_part_full_name), r.entry >>
              /\ calls' = Append(calls, r.call)
              /\ MoveTo(r.next, flow_stack)
    /\ route_name' = NoDecision
    /\ input_call' = NoInput
    /\ monitor' = monitor
    /\ old_trace_part_data' = OldTracePartData(path_index, old_part_path)
    /\ parsed_input' = parsed_input
    /\ UNCHANGED << run_vars, config_vars, pc, experiment_data,
                    new_experiment_data, experiment_parts, file, prompts >>

\* run lines 122-123 with _end_flow, inside a flow
DoneEndsFlow ==
    /\ AtLoopTop
    /\ current_part_full_name = Done
    /\ Len(flow_stack) > 0
    /\ \E ok \in BOOLEAN :
          LET r == EndFlowResult(ok)
          IN  /\ flow_stack' = r.stack
              /\ trace' = trace \o << AtPartEntry(current_part_full_name), r.entry >>
              /\ calls' = Append(calls, r.call)
              /\ MoveTo(r.next, r.stack)
    /\ route_name' = NoDecision
    /\ input_call' = NoInput
    /\ monitor' = monitor
    /\ old_trace_part_data' = OldTracePartData(path_index, old_part_path)
    /\ parsed_input' = parsed_input
    /\ UNCHANGED << run_vars, config_vars, pc, experiment_data,
                    new_experiment_data, experiment_parts, file, prompts >>

\* run lines 122-123 with _end_flow lines 286-288, at the top level
DoneAtTopLevel ==
    /\ AtLoopTop
    /\ current_part_full_name = Done
    /\ Len(flow_stack) = 0
    /\ trace' = Append(trace, AtPartEntry(current_part_full_name))
    /\ MoveTo(NextAfterTopLevelDone, flow_stack)
    /\ route_name' = NoDecision
    /\ input_call' = NoInput
    /\ monitor' = monitor
    /\ old_trace_part_data' = OldTracePartData(path_index, old_part_path)
    /\ parsed_input' = parsed_input
    /\ UNCHANGED << run_vars, config_vars, pc, flow_stack, experiment_data,
                    new_experiment_data, experiment_parts, file, prompts, calls >>

\* the current name is a constructed part of the given category (line 140)
AtPartOf(category) ==
    /\ AtLoopTop
    /\ current_part_full_name \notin COMMAND_NAMES
    /\ current_part_full_name \in experiment_parts
    /\ CategoryOf(TypeNameOf(current_part_full_name)) = category

\* _run_part for a Step: run_step makes the set_output calls ws and possibly
\* a get_input call, and then returns or raises; a ConfigError raised by
\* get_input leaves run_step
RunStep ==
    /\ AtPartOf("step")
    /\ \E ws \in WriteSeqs, returns \in BOOLEAN :
          LET start == StartStaging(experiment_data, new_experiment_data)
              staging == ApplyWrites(start, ws)
          IN  \E inp \in InputCallsOf(current_part_full_name, staging) :
              LET ok == returns /\ ~(inp.called /\ inp.outcome.raised)
              IN
              /\ input_call' = inp
              /\ new_experiment_data' = staging
              /\ calls' = Append(calls,
                     CallSeeing("run_step", current_part_full_name, ok, start))
              /\ IF ok
                 THEN /\ trace' = trace \o
                           << AtPartEntry(current_part_full_name),
                              StepEntry(current_part_full_name, experiment_data, staging,
                                  PartDataOf(current_part_full_name)) >>
                      /\ experiment_data' = CommitOnSuccess(experiment_data, staging)
                      /\ MoveTo(Get(NextPartOf(current_part_full_name), ""), flow_stack)
                 ELSE /\ trace' = trace \o
                           << AtPartEntry(current_part_full_name),
                              ErrorEntry(current_part_full_name) >>
                      /\ experiment_data' = CommittedAfterFailure(experiment_data, staging)
                      /\ MoveTo(NextAfterFailure(current_part_full_name), flow_stack)
    /\ route_name' = NoDecision
    /\ monitor' = monitor
    /\ old_trace_part_data' = OldTracePartData(path_index, old_part_path)
    /\ parsed_input' = parsed_input
    /\ UNCHANGED << run_vars, config_vars, pc, flow_stack, experiment_parts,
                    file, prompts >>

\* _run_part for a Decision: decide_route returns a route or raises
RunDecision ==
    /\ AtPartOf("decision")
    /\ LET staging == StartStaging(experiment_data, new_experiment_data)
       IN  /\ new_experiment_data' = staging
           /\ \/ \E ret \in {Returned(r) : r \in DecisionReturns(current_part_full_name)}
                              \cup DecisionRoutesOf(current_part_full_name) :
                    LET next_part_short_name ==
                            DecisionNextOf(current_part_full_name, ret)
                    IN  /\ route_name' = ret
                        /\ trace' = trace \o
                             << AtPartEntry(current_part_full_name),
                                DecisionEntry(current_part_full_name, next_part_short_name) >>
                        /\ calls' = Append(calls,
                               CallSeeing("decide_route", current_part_full_name, TRUE, staging))
                        /\ experiment_data' = CommitOnSuccess(experiment_data, staging)
                        /\ MoveTo(next_part_short_name, flow_stack)
              \/ /\ trace' = trace \o
                      << AtPartEntry(current_part_full_name),
                         ErrorEntry(current_part_full_name) >>
                 /\ calls' = Append(calls,
                        CallSeeing("decide_route", current_part_full_name, FALSE, staging))
                 /\ route_name' = NoDecision
                 /\ experiment_data' = CommittedAfterFailure(experiment_data, staging)
                 /\ MoveTo(NextAfterFailure(current_part_full_name), flow_stack)
    /\ input_call' = NoInput
    /\ monitor' = monitor
    /\ old_trace_part_data' = OldTracePartData(path_index, old_part_path)
    /\ parsed_input' = parsed_input
    /\ UNCHANGED << run_vars, config_vars, pc, flow_stack, experiment_parts,
                    file, prompts >>

\* _run_part lines 223-226: the flow is pushed after begin_flow has returned
StackAfterBeginFlow_PushedBeforeCall(stack, n, ok) == Append(stack, n)
StackAfterBeginFlow(stack, n, ok) == IF ok THEN Append(stack, n) ELSE stack

\* _run_part for a Flow: begin_flow returns the first part or raises
RunFlow ==
    /\ AtPartOf("flow")
    /\ LET staging == StartStaging(experiment_data, new_experiment_data)
       IN  /\ new_experiment_data' = staging
           /\ \/ \E first \in FirstPartsOf(current_part_full_name) :
                    /\ flow_stack' = StackAfterBeginFlow(flow_stack,
                                          current_part_full_name, TRUE)
                    /\ trace' = trace \o
                         << AtPartEntry(current_part_full_name),
                            FlowBeginEntry(current_part_full_name, first) >>
                    /\ calls' = Append(calls,
                           CallSeeing("begin_flow", current_part_full_name, TRUE, staging))
                    /\ experiment_data' = CommitOnSuccess(experiment_data, staging)
                    /\ MoveTo(first, flow_stack')
              \/ /\ flow_stack' = StackAfterBeginFlow(flow_stack,
                                       current_part_full_name, FALSE)
                 /\ trace' = trace \o
                      << AtPartEntry(current_part_full_name),
                         ErrorEntry(current_part_full_name) >>
                 /\ calls' = Append(calls,
                        CallSeeing("begin_flow", current_part_full_name, FALSE, staging))
                 /\ experiment_data' = CommittedAfterFailure(experiment_data, staging)
                 /\ MoveTo(NextAfterFailure(current_part_full_name), flow_stack')
    /\ route_name' = NoDecision
    /\ input_call' = NoInput
    /\ monitor' = monitor
    /\ old_trace_part_data' = OldTracePartData(path_index, old_part_path)
    /\ parsed_input' = parsed_input
    /\ UNCHANGED << run_vars, config_vars, pc, experiment_parts, file, prompts >>

\* ---------------------------------------------------------------- teardown
\* run lines 148-149: one _end_flow per flow that is still open
TeardownEndFlow ==
    /\ pc = "teardown"
    /\ Len(flow_stack) > 0
    /\ \E ok \in BOOLEAN :
          LET r == EndFlowResult(ok)
          IN  /\ flow_stack' = r.stack
              /\ trace' = Append(trace, r.entry)
              /\ calls' = Append(calls, r.call)
    /\ route_name' = NoDecision
    /\ input_call' = NoInput
    /\ monitor' = monitor
    /\ old_trace_part_data' = old_trace_part_data
    /\ parsed_input' = parsed_input
    /\ UNCHANGED << run_vars, config_vars, pc, path_index, current_part_full_name,
                    experiment_data, new_experiment_data, experiment_parts,
                    file, prompts >>

\* run line 150 with _end_experiment_run, then ExperimentTrace.__exit__
EndExperimentRun ==
    /\ pc = "teardown"
    /\ Len(flow_stack) = 0
    /\ trace' = Append(trace, ExperimentEndEntry)
    /\ file' = "finalized"
    /\ pc' = "done"
    /\ route_name' = NoDecision
    /\ input_call' = NoInput
    /\ monitor' = monitor
    /\ old_trace_part_data' = old_trace_part_data
    /\ parsed_input' = parsed_input
    /\ UNCHANGED << run_vars, config_vars, path_index, current_part_full_name,
                    flow_stack, experiment_data, new_experiment_data,
                    experiment_parts, prompts, calls >>

\* -------------------------------------------------------------- the next run
\* workflow.py main with --rerun or --continue: the finalized trace file of
\* the last run is loaded and a new manager retraces its part path
Retrace ==
    /\ file = "finalized"
    /\ runs < MaxRuns
    /\ \E m \in {"rerun", "continue"} : mode' = m
    /\ old_part_path' = get_part_path(trace)
    /\ old_mode' = mode
    /\ runs' = runs + 1
    /\ pc' = "init"
    /\ path_index' = 0
    /\ current_part_full_name' = None
    /\ flow_stack' = <<>>
    /\ experiment_data' = initial_values
    /\ new_experiment_data' = initial_values
    /\ experiment_parts' = {}
    /\ trace' = <<>>
    /\ file' = "unopened"
    /\ prompts' = <<>>
    /\ calls' = <<>>
    /\ route_name' = NoDecision
    /\ input_call' = NoInput
    /\ monitor' = monitor
    /\ old_trace_part_data' = NoData
    /\ parsed_input' = parsed_input
    /\ UNCHANGED config_vars

Next ==
    \/ BeginExperimentRun
    \/ PathDeviationAbort
    \/ QuitFromHistory
    \/ AskResearcher
    \/ ResearcherInputFails
    \/ QuitBreak
    \/ AskFromHistory
    \/ DoneEndsFlow
    \/ DoneAtTopLevel
    \/ RunStep
    \/ RunDecision
    \/ RunFlow
    \/ TeardownEndFlow
    \/ EndExperimentRun
    \/ Retrace

Spec == Init /\ [][Next]_vars

\* ------------------------------------------------- name resolution on its own
\* the arguments _convert_to_full_name can be given: names of up to MaxNameLen
\* components, null and the reserved commands, under flow stacks of up to
\* MaxStack open flows
NameTokens == {"f", "g"}
Names == UNION {[1 .. k -> NameTokens] : k \in 1 .. MaxNameLen}
NameShorts == Names \cup {None} \cup COMMAND_NAMES
NameStacks == UNION {[1 .. k -> Names] : k \in 0 .. MaxStack}

InitNames ==
    /\ mode = "normal"
    /\ old_part_path = <<>>
    /\ old_mode = "none"
    /\ runs = 1
    /\ part_types = TypeNames
    /\ initial_part_name = <<"start">>
    /\ pc = "resolve"
    /\ path_index = 0
    /\ current_part_full_name \in NameShorts
    /\ flow_stack \in NameStacks
    /\ experiment_data = initial_values
    /\ new_experiment_data = initial_values
    /\ experiment_parts = {}
    /\ trace = <<>>
    /\ file = "unopened"
    /\ prompts = <<>>
    /\ calls = <<>>
    /\ route_name = NoDecision
    /\ input_call = NoInput
    /\ old_trace_part_data = NoData
    /\ parsed_input = <<>>
    /\ monitor = NoMonitor

\* run line 145: the name returned for the next part is resolved
ResolveName ==
    /\ pc = "resolve"
    /\ current_part_full_name' =
          convert_to_full_name(current_part_full_name, flow_stack)
    /\ pc' = "resolved"
    /\ route_name' = NoDecision
    /\ input_call' = NoInput
    /\ monitor' = monitor
    /\ old_trace_part_data' = old_trace_part_data
    /\ parsed_input' = parsed_input
    /\ UNCHANGED << run_vars, config_vars, path_index, flow_stack,
                    experiment_data, new_experiment_data, experiment_parts,
                    trace, file, prompts, calls >>

SpecNames == InitNames /\ [][ResolveName]_vars

\* ------------------------------------------------------ part path on its own
\* the traces get_part_path can be given: up to MaxVisits visits, each an
\* at_part entry, the entries the part recorded while it ran, and the entry
\* that completed the visit (none for a command or a prompt)
PathNames == {<<"start">>, <<"f">>}
PartDatas == {NoData, <<"d">>}
\* every part may insert custom entries; only a Flow can add and remove parts
PathMiddles(n) ==
    {<<>>, <<CustomEntry("note", <<>>)>>} \cup
    (IF n = <<"f">>
     THEN {<<PartRemoveEntry(<<"f", "g">>)>>,
           <<PartAddEntry(<<"f", "g">>)>>,
           <<CustomEntry("note", <<>>), PartAddEntry(<<"f", "g">>)>>}
     ELSE {})
PathCompletions(n) ==
    {<<>>, <<ErrorEntry(n)>>} \cup
    (IF n = <<"f">>
     THEN {<<[FlowBeginEntry(n, <<"g">>) EXCEPT !.part_data = d]>> : d \in PartDatas}
     ELSE {<<StepEntry(n, initial_values, initial_values, d)>> : d \in PartDatas})
PathVisits ==
    UNION {{<<AtPartEntry(n)>> \o m \o c : m \in PathMiddles(n), c \in PathCompletions(n)} :
              n \in PathNames}
RECURSIVE Flatten(_)
Flatten(ss) == IF ss = <<>> THEN <<>> ELSE ss[1] \o Flatten(Tail(ss))
PathTraces == {Flatten(vs) : vs \in UNION {[1 .. k -> PathVisits] : k \in 0 .. MaxVisits}}

InitPath ==
    /\ mode = "normal"
    /\ old_part_path = <<>>
    /\ old_mode = "none"
    /\ runs = 1
    /\ part_types = TypeNames
    /\ initial_part_name = <<"start">>
    /\ pc = "load"
    /\ path_index = 0
    /\ current_part_full_name = None
    /\ flow_stack = <<>>
    /\ experiment_data = initial_values
    /\ new_experiment_data = initial_values
    /\ experiment_parts = {}
    /\ trace \in PathTraces
    /\ file = "finalized"
    /\ prompts = <<>>
    /\ calls = <<>>
    /\ route_name = NoDecision
    /\ input_call = NoInput
    /\ old_trace_part_data = NoData
    /\ parsed_input = <<>>
    /\ monitor = NoMonitor

\* run line 63: the part path of the old trace is taken
LoadPartPath ==
    /\ pc = "load"
    /\ old_part_path' = get_part_path(trace)
    /\ pc' = "loaded"
    /\ route_name' = NoDecision
    /\ input_call' = NoInput
    /\ monitor' = monitor
    /\ old_trace_part_data' = old_trace_part_data
    /\ parsed_input' = parsed_input
    /\ UNCHANGED << mode, old_mode, runs, config_vars, path_index,
                    current_part_full_name, flow_stack, experiment_data,
                    new_experiment_data, experiment_parts, trace, file,
                    prompts, calls >>

SpecPath == InitPath /\ [][LoadPartPath]_vars

\* ------------------------------------------------------- the trace file
\* Python values a trace entry can hold
PyNone == [py |-> "None"]
PyInt(n) == [py |-> "int", n |-> n]
PyStr(str) == [py |-> "str", s |-> str]
PyList(items) == [py |-> "list", items |-> items]
PyTuple(items) == [py |-> "tuple", items |-> items]
\* a complex number, which the JSON encoder rejects
PyComplex == [py |-> "complex"]
\* an instance of a class of the library, rejected as well
PyObject(class) == [py |-> "object", class |-> class]
\* a dict as the sequence of its <<key, value>> items
PyDict(items) == [py |-> "dict", items |-> items]

\* JSON text, by its structure
JsonNull == [json |-> "null"]
JsonNumber(n) == [json |-> "number", n |-> n]
JsonString(str) == [json |-> "string", s |-> str]
\* the text of a timestamp
JsonIsoText(text) == [json |-> "string", iso |-> text]
JsonArray(items) == [json |-> "array", items |-> items]
JsonObject(members) == [json |-> "object", members |-> members]

\* str() of a small integer
IntStr(n) ==
    CASE n = 0 -> "0" [] n = 1 -> "1" [] n = 2 -> "2" [] n = 3 -> "3" [] OTHER -> "n"

\* json.dump: whether the encoder accepts the value
RECURSIVE JsonEncodable(_)
JsonEncodable(v) ==
    CASE v.py \in {"None", "int", "str"} -> TRUE
      [] v.py \in {"list", "tuple"} ->
            \A i \in DOMAIN v.items : JsonEncodable(v.items[i])
      [] v.py = "dict" ->
            \A i \in DOMAIN v.items :
                /\ v.items[i][1].py \in {"int", "str"}
                /\ JsonEncodable(v.items[i][2])
      [] OTHER -> FALSE

\* json.dump: a key of a dict becomes a string
JsonKey(k) == IF k.py = "int" THEN IntStr(k.n) ELSE k.s

\* json.dump: lists and tuples become arrays, dicts become objects
RECURSIVE JsonEncode(_)
JsonEncode(v) ==
    CASE v.py = "None" -> JsonNull
      [] v.py = "int" -> JsonNumber(v.n)
      [] v.py = "str" -> JsonString(v.s)
      [] v.py \in {"list", "tuple"} ->
            JsonArray([i \in DOMAIN v.items |-> JsonEncode(v.items[i])])
      [] v.py = "dict" ->
            JsonObject([i \in DOMAIN v.items |->
                <<JsonKey(v.items[i][1]), JsonEncode(v.items[i][2])>>])

\* json.load: arrays become lists, objects become dicts with string keys
RECURSIVE JsonDecode(_)
JsonDecode(j) ==
    CASE j.json = "null" -> PyNone
      [] j.json = "number" -> PyInt(j.n)
      [] j.json = "string" -> PyStr(j.s)
      [] j.json = "array" ->
            PyList([i \in DOMAIN j.items |-> JsonDecode(j.items[i])])
      [] j.json = "object" ->
            PyDict([i \in DOMAIN j.members |->
                <<PyStr(j.members[i][1]), JsonDecode(j.members[i][2])>>])

\* a datetime: seconds and microseconds
Stamp(sec, us) == [sec |-> sec, us |-> us]
Stamps == {Stamp(sec, us) : sec \in 0 .. 1, us \in 0 .. 1}
StampLess(a, b) == a.sec < b.sec \/ (a.sec = b.sec /\ a.us < b.us)

\* datetime.isoformat: the microseconds are left out when they are zero
isoformat(t) == IF t.us = 0 THEN <<t.sec>> ELSE <<t.sec, t.us>>
\* datetime.fromisoformat
fromisoformat(text) ==
    IF Len(text) = 1 THEN Stamp(text[1], 0) ELSE Stamp(text[1], text[2])

\* record lines 250-251: entry.__dict__ with the timestamp as ISO text
EntryDict(entry) ==
    [k \in DOMAIN entry |->
        IF k = "timestamp" THEN JsonIsoText(isoformat(entry[k]))
        ELSE JsonEncode(entry[k])]
EntryEncodable(entry) ==
    \A k \in DOMAIN entry \ {"timestamp"} : JsonEncodable(entry[k])

\* _parse_input_trace lines 303-376: the fields each constructor is given
ParsedFields(event) ==
    CASE event = "experiment_begin" -> {"experiment_name", "run_number", "experiment_data"}
      [] event = "experiment_end" -> {"experiment_name", "run_number"}
      [] event = "at_part" -> {"part_name"}
      [] event = "error" -> {"part_name", "error_message"}
      [] event = "researcher_decision" -> {"next_part"}
      [] event = "step" -> {"step_name", "data_before", "data_after", "part_data"}
      [] event = "decision" -> {"decision_name", "next_part", "part_data"}
      [] event = "flow_begin" -> {"flow_name", "first_part", "part_data"}
      [] event = "flow_end" -> {"flow_name", "part_data"}
      [] event = "part_add" -> {"full_name", "file_path", "raw_config", "part_category"}
      [] event = "part_remove" -> {"full_name"}
      [] event = "custom" -> {"event_type", "event_data"}

\* _parse_input_trace lines 302-376: one entry of the raw trace
ParseEntry(raw) ==
    LET event == JsonDecode(raw.event).s
    IN  [k \in ParsedFields(event) \cup {"timestamp", "event"} |->
            CASE k = "timestamp" -> fromisoformat(raw.timestamp.iso)
              [] k = "event" -> PyStr(event)
              [] OTHER -> IF k \in DOMAIN raw THEN JsonDecode(raw[k]) ELSE PyNone]

\* list.sort(key = timestamp): stable, entries with equal timestamps keep
\* their order
RECURSIVE SortByTimestamp(_)
InsertByTimestamp(sorted, e) ==
    LET after == {i \in DOMAIN sorted : StampLess(e.timestamp, sorted[i].timestamp)}
        at == IF after = {} THEN Len(sorted) + 1
              ELSE CHOOSE i \in after : \A k \in after : i <= k
    IN  SubSeq(sorted, 1, at - 1) \o <<e>> \o SubSeq(sorted, at, Len(sorted))
SortByTimestamp(entries) ==
    IF entries = <<>> THEN <<>>
    ELSE InsertByTimestamp(SortByTimestamp(SubSeq(entries, 1, Len(entries) - 1)),
                           entries[Len(entries)])

\* the values a part can store in the data or save as part data
PyValues ==
    {PyNone, PyInt(1), PyStr("a"),
     PyList(<<PyInt(1)>>), PyTuple(<<PyInt(1)>>),
     PyDict(<<<<PyStr("k"), PyInt(1)>>>>), PyDict(<<<<PyInt(1), PyInt(2)>>>>)}
\* a data dictionary with one name
DataOf(v) == PyDict(<<<<PyStr("x"), v>>>>)
OptionalData == {PyNone} \cup {DataOf(v) : v \in PyValues}

\* the twelve entry variants, as their constructors build them
TraceEntries ==
    UNION {
      {[timestamp |-> t, event |-> PyStr("experiment_begin"),
        experiment_name |-> PyStr("exp"), run_number |-> PyInt(1),
        experiment_data |-> DataOf(v)] : v \in PyValues}
      \cup
      {[timestamp |-> t, event |-> PyStr("experiment_end"),
        experiment_name |-> PyStr("exp"), run_number |-> PyInt(1)]}
      \cup
      {[timestamp |-> t, event |-> PyStr("at_part"), part_name |-> n] :
            n \in {PyStr("start"), PyNone}}
      \cup
      {[timestamp |-> t, event |-> PyStr("error"), part_name |-> PyStr("start"),
        error_message |-> PyStr("boom")]}
      \cup
      {[timestamp |-> t, event |-> PyStr("researcher_decision"), next_part |-> n] :
            n \in {PyStr("b"), PyNone}}
      \cup
      {[timestamp |-> t, event |-> PyStr("step"), step_name |-> PyStr("start"),
        data_before |-> DataOf(PyInt(1)), data_after |-> DataOf(v),
        part_data |-> d] : v \in PyValues, d \in OptionalData}
      \cup
      {[timestamp |-> t, event |-> PyStr("decision"), decision_name |-> PyStr("ask"),
        next_part |-> PyStr("b"), part_data |-> d] : d \in OptionalData}
      \cup
      {[timestamp |-> t, event |-> PyStr("flow_begin"), flow_name |-> PyStr("f"),
        first_part |-> n, part_data |-> d] :
            n \in {PyStr("g"), PyNone}, d \in OptionalData}
      \cup
      {[timestamp |-> t, event |-> PyStr("flow_end"), flow_name |-> PyStr("f"),
        part_data |-> d] : d \in OptionalData}
      \cup
      {[timestamp |-> t, event |-> PyStr("part_add"), full_name |-> PyStr("f.g"),
        file_path |-> PyStr("p.toml"), raw_config |-> DataOf(v),
        part_category |-> PyStr("step")] : v \in PyValues}
      \cup
      {[timestamp |-> t, event |-> PyStr("part_remove"), full_name |-> PyStr("f.g")]}
      \cup
      {[timestamp |-> t, event |-> PyStr("custom"), event_type |-> PyStr("note"),
        event_data |-> d] : d \in OptionalData}
      : t \in Stamps}

InitJson ==
    /\ mode = "normal"
    /\ old_part_path = <<>>
    /\ old_mode = "none"
    /\ runs = 1
    /\ part_types = TypeNames
    /\ initial_part_name = <<"start">>
    /\ pc = "record"
    /\ path_index = 0
    /\ current_part_full_name = None
    /\ flow_stack = <<>>
    /\ experiment_data = initial_values
    /\ new_experiment_data = initial_values
    /\ experiment_parts = {}
    /\ \E e \in TraceEntries : trace = <<e>>
    /\ file = <<>>
    /\ prompts = <<>>
    /\ calls = <<>>
    /\ route_name = NoDecision
    /\ input_call = NoInput
    /\ old_trace_part_data = NoData
    /\ parsed_input = <<>>
    /\ monitor = NoMonitor

\* record lines 248-255: the entry is serialized
SerializeEntry ==
    /\ pc = "record"
    /\ EntryEncodable(trace[1])
    /\ file' = <<EntryDict(trace[1])>>
    /\ pc' = "recorded"
    /\ route_name' = NoDecision
    /\ input_call' = NoInput
    /\ monitor' = monitor
    /\ old_trace_part_data' = old_trace_part_data
    /\ parsed_input' = parsed_input
    /\ UNCHANGED << run_vars, config_vars, path_index, current_part_full_name,
                    flow_stack, experiment_data, new_experiment_data,
                    experiment_parts, trace, prompts, calls >>

\* _parse_input_trace lines 298-376: the entry is parsed back
DeserializeEntry ==
    /\ pc = "recorded"
    /\ parsed_input' = <<ParseEntry(file[1])>>
    /\ pc' = "parsed"
    /\ route_name' = NoDecision
    /\ input_call' = NoInput
    /\ monitor' = monitor
    /\ old_trace_part_data' = old_trace_part_data
    /\ UNCHANGED << run_vars, config_vars, path_index, current_part_full_name,
                    flow_stack, experiment_data, new_experiment_data,
                    experiment_parts, trace, file, prompts, calls >>

SpecJson == InitJson /\ [][SerializeEntry \/ DeserializeEntry]_vars

\* ------------------------------------------------- writing and reloading
\* the text of the output file, as the sequence of the pieces written to it
FileHeader == [text |-> "header", version |-> 1]
FileEntry(dict) == [text |-> "entry", dict |-> dict]
\* what json.dump had written of an entry when the encoder raised
FilePartial(event) == [text |-> "partial", event |-> event]
FileSeparator == [text |-> "separator"]
FileClosing == [text |-> "closing"]

\* record lines 248-255: what an entry adds to the open file
RecordWrites(entry) ==
    IF EntryEncodable(entry)
    THEN <<FileEntry(EntryDict(entry)), FileSeparator>>
    ELSE <<FilePartial(entry.event)>>

\* json.load of the file text: whether it is one JSON document, the header
\* object holding an array of entries, each followed by a comma, and the
\* empty object
WellFormedFile(f) ==
    /\ Len(f) >= 2
    /\ Len(f) % 2 = 0
    /\ f[1] = FileHeader
    /\ f[Len(f)] = FileClosing
    /\ \A i \in 2 .. Len(f) - 1 :
          IF i % 2 = 0 THEN f[i].text = "entry" ELSE f[i] = FileSeparator

\* raw_input["trace"] without the empty last object
RawTrace(f) ==
    LET at == SelectSeq([i \in 1 .. Len(f) |-> i], LAMBDA i : f[i].text = "entry")
    IN  [k \in 1 .. Len(at) |-> f[at[k]].dict]

\* the event names _parse_input_trace has a case for (lines 304-376)
KnownEvents ==
    {"experiment_begin", "experiment_end", "at_part", "error",
     "researcher_decision", "step", "decision", "flow_begin", "flow_end",
     "part_add", "part_remove", "custom"}

\* a parser that skips every entry without an event
IsSkipped_NoEvent(raw) == "event" \notin DOMAIN raw
\* _parse_input_trace lines 299-301: "if not entry: continue"
IsSkipped(raw) == DOMAIN raw = {}

\* whether the loop body builds an entry from raw: the timestamp is there
\* (line 302), the event is a known name (the match of line 303), and the
\* fields read with entry[...] are there
RawEntryParses(raw) ==
    /\ "timestamp" \in DOMAIN raw
    /\ "event" \in DOMAIN raw
    /\ raw.event.json = "string"
    /\ "s" \in DOMAIN raw.event
    /\ raw.event.s \in KnownEvents
    /\ (ParsedFields(raw.event.s) \ {"part_data"}) \subseteq DOMAIN raw

\* _parse_input_trace raises (KeyError at line 302, ValueError at line 381)
ParseRaises(f) ==
    \E k \in 1 .. Len(RawTrace(f)) :
        ~IsSkipped(RawTrace(f)[k]) /\ ~RawEntryParses(RawTrace(f)[k])

\* _parse_input_trace: every entry that is not skipped is parsed, then the
\* list is sorted by timestamp (line 382)
parse_input_trace(f) ==
    LET kept == SelectSeq(RawTrace(f), LAMBDA raw : ~IsSkipped(raw))
    IN  SortByTimestamp([k \in 1 .. Len(kept) |-> ParseEntry(kept[k])])

\* the entries a run records: at_part entries, the flow_begin entries of a
\* flow whose begin_flow returns a name or a BeginFlowRoute, and the step
\* entries of a step that stores an integer or a complex number
RecordedEntries ==
    UNION {
      {[timestamp |-> t, event |-> PyStr("at_part"), part_name |-> PyStr(n)] :
            n \in {"start", "b"}}
      \cup
      {[timestamp |-> t, event |-> PyStr("flow_begin"), flow_name |-> PyStr("f"),
        first_part |-> n, part_data |-> PyNone] :
            n \in {PyStr("g"), PyObject("BeginFlowRoute")}}
      \cup
      {[timestamp |-> t, event |-> PyStr("step"), step_name |-> PyStr("start"),
        data_before |-> DataOf(PyInt(1)), data_after |-> DataOf(v),
        part_data |-> PyNone] : v \in {PyInt(1), PyComplex}}
      : t \in Stamps}

InitFile ==
    /\ mode = "normal"
    /\ old_part_path = <<>>
    /\ old_mode = "none"
    /\ runs = 1
    /\ part_types = TypeNames
    /\ initial_part_name = <<"start">>
    /\ pc = "open"
    /\ path_index = 0
    /\ current_part_full_name = None
    /\ flow_stack = <<>>
    /\ experiment_data = initial_values
    /\ new_experiment_data = initial_values
    /\ experiment_parts = {}
    /\ trace = <<>>
    /\ file = <<FileHeader>>
    /\ prompts = <<>>
    /\ calls = <<>>
    /\ route_name = NoDecision
    /\ input_call = NoInput
    /\ old_trace_part_data = NoData
    /\ parsed_input = <<>>
    /\ monitor = NoMonitor

\* ExperimentTrace.record: the entry is appended, and written when the
\* output file is open
RecordToFile ==
    /\ pc \in {"open", "closed"}
    /\ Len(trace) < MaxEntries
    /\ \E entry \in RecordedEntries :
          /\ trace' = Append(trace, entry)
          /\ file' = IF pc = "open" THEN file \o RecordWrites(entry) ELSE file
    /\ route_name' = NoDecision
    /\ input_call' = NoInput
    /\ monitor' = monitor
    /\ old_trace_part_data' = old_trace_part_data
    /\ parsed_input' = parsed_input
    /\ UNCHANGED << run_vars, config_vars, pc, path_index, current_part_full_name,
                    flow_stack, experiment_data, new_experiment_data,
                    experiment_parts, prompts, calls >>

\* ExperimentTrace.__exit__: the closing text is written and the file closed
ExitTrace ==
    /\ pc = "open"
    /\ file' = Append(file, FileClosing)
    /\ pc' = "closed"
    /\ route_name' = NoDecision
    /\ input_call' = NoInput
    /\ monitor' = monitor
    /\ old_trace_part_data' = old_trace_part_data
    /\ parsed_input' = parsed_input
    /\ UNCHANGED << run_vars, config_vars, path_index, current_part_full_name,
                    flow_stack, experiment_data, new_experiment_data,
                    experiment_parts, trace, prompts, calls >>

\* ExperimentTrace.__init__ with an input file: json.load, then
\* _parse_input_trace
LoadInputTrace ==
    /\ pc = "closed"
    /\ IF WellFormedFile(file) /\ ~ParseRaises(file)
       THEN /\ parsed_input' = parse_input_trace(file)
            /\ pc' = "loaded"
       ELSE /\ parsed_input' = parsed_input
            /\ pc' = "load_error"
    /\ route_name' = NoDecision
    /\ input_call' = NoInput
    /\ monitor' = monitor
    /\ old_trace_part_data' = old_trace_part_data
    /\ UNCHANGED << run_vars, config_vars, path_index, current_part_full_name,
                    flow_stack, experiment_data, new_experiment_data,
                    experiment_parts, trace, file, prompts, calls >>

SpecFile == InitFile /\ [][RecordToFile \/ ExitTrace \/ LoadInputTrace]_vars

\* ------------------------------------------------- loading any trace file
\* the objects a historical file can hold in its trace array: entries as
\* the writer writes them, the empty object, an entry without an event, and
\* entries whose event is not a known name or not a string
RawEntries ==
    << EntryDict([timestamp |-> Stamp(0, 0), event |-> PyStr("at_part"),
                  part_name |-> PyStr("start")]),
       EntryDict([timestamp |-> Stamp(0, 1), event |-> PyStr("step"),
                  step_name |-> PyStr("start"), data_before |-> DataOf(PyInt(1)),
                  data_after |-> DataOf(PyInt(1)), part_data |-> PyNone]),
       EntryDict([timestamp |-> Stamp(1, 0), event |-> PyStr("at_part"),
                  part_name |-> PyStr("b")]),
       <<>>,
       [timestamp |-> JsonIsoText(isoformat(Stamp(1, 1))),
        part_name |-> JsonString("b")],
       [timestamp |-> JsonIsoText(isoformat(Stamp(1, 1))),
        event |-> JsonString("teleport"), part_name |-> JsonString("b")],
       [timestamp |-> JsonIsoText(isoformat(Stamp(1, 1))),
        event |-> JsonNull, part_name |-> JsonString("b")] >>

RECURSIVE FileLines(_)
FileLines(raws) ==
    IF raws = <<>> THEN <<>>
    ELSE <<FileEntry(raws[1]), FileSeparator>> \o FileLines(Tail(raws))

InitLoad ==
    /\ mode = "normal"
    /\ old_part_path = <<>>
    /\ old_mode = "none"
    /\ runs = 1
    /\ part_types = TypeNames
    /\ initial_part_name = <<"start">>
    /\ pc = "closed"
    /\ path_index = 0
    /\ current_part_full_name = None
    /\ flow_stack = <<>>
    /\ experiment_data = initial_values
    /\ new_experiment_data = initial_values
    /\ experiment_parts = {}
    /\ trace = <<>>
    /\ \E k \in 0 .. MaxRaw : \E at \in [1 .. k -> DOMAIN RawEntries] :
          file = <<FileHeader>> \o FileLines([i \in 1 .. k |-> RawEntries[at[i]]])
                    \o <<FileClosing>>
    /\ prompts = <<>>
    /\ calls = <<>>
    /\ route_name = NoDecision
    /\ input_call = NoInput
    /\ old_trace_part_data = NoData
    /\ parsed_input = <<>>
    /\ monitor = NoMonitor

SpecLoad == InitLoad /\ [][LoadInputTrace]_vars

\* ------------------------------------------------ adding parts from a flow
\* a flow calls Flow.add_part while the experiment runs.  Here the registry
\* experiment_parts is a function from the full name of each part to the
\* name of its type, so that a replaced part is told from the part it
\* replaces; calls holds the last add_part call and what it met.
MaxAdds == 2

\* the part types of the configuration: the three kinds of part and a class
\* that is none of them; "absent_type" is a type name the configuration lacks
AddPartTypes == TypeNames \cup {"other_type"}
AddTypeNames == AddPartTypes \cup {"absent_type"}
AddFlows == {<<"f">>, <<"f", "g">>}
AddNames == {<<"f">>, <<"g">>, <<"f", "g">>, <<"f", "t">>, <<"fx", "t">>,
             <<"f", "g", "t">>}

\* the category _add_part computes from the class of the part type
AddCategory(type_name) ==
    IF type_name \in TypeNames THEN CategoryOf(type_name) ELSE "unknown"

\* full_name.startswith(f"{flow}.")
InFlowScope(flow, full_name) ==
    IsPrefix(flow, full_name) /\ Len(full_name) > Len(flow)

\* ExperimentManager._add_part: the outcome for a registry and a trace
add_part(parts, tr, full_name, type_name, constructs) ==
    IF type_name \notin AddPartTypes \/ ~constructs
    THEN [parts |-> parts, trace |-> tr, raised |-> TRUE]
    ELSE LET added == [n \in DOMAIN parts \cup {full_name} |->
                          IF n = full_name THEN type_name ELSE parts[n]]
         IN  IF AddCategory(type_name) = "unknown"
             THEN [parts |-> added, trace |-> tr, raised |-> TRUE]
             ELSE [parts |-> added,
                   trace |-> Append(tr, [event |-> "part_add",
                                         full_name |-> full_name,
                                         part_category |-> AddCategory(type_name)]),
                   raised |-> FALSE]

\* Flow.add_part
flow_add_part_Unscoped(flow, parts, tr, full_name, type_name, constructs) ==
    add_part(parts, tr, full_name, type_name, constructs)
flow_add_part(flow, parts, tr, full_name, type_name, constructs) ==
    IF ~InFlowScope(flow, full_name)
    THEN [parts |-> parts, trace |-> tr, raised |-> TRUE]
    ELSE add_part(parts, tr, full_name, type_name, constructs)

InitAdd ==
    /\ mode = "normal"
    /\ old_part_path = <<>>
    /\ old_mode = "none"
    /\ runs = 1
    /\ part_types = AddPartTypes
    /\ initial_part_name = <<"start">>
    /\ pc = "in_flow"
    /\ path_index = 0
    /\ current_part_full_name \in AddFlows
    /\ flow_stack = <<current_part_full_name>>
    /\ experiment_data = initial_values
    /\ new_experiment_data = initial_values
    /\ experiment_parts = [n \in {current_part_full_name} |-> "flow_type"]
    /\ trace = <<>>
    /\ file = <<>>
    /\ prompts = <<>>
    /\ calls = <<>>
    /\ route_name = NoDecision
    /\ input_call = NoInput
    /\ old_trace_part_data = NoData
    /\ parsed_input = <<>>
    /\ monitor = NoMonitor

\* a call of add_part by the running flow; the ConfigError it raises is
\* caught by the flow, which goes on
FlowAddPart ==
    /\ pc = "in_flow"
    /\ runs <= MaxAdds
    /\ \E full_name \in AddNames, type_name \in AddTypeNames,
          constructs \in BOOLEAN :
          LET r == flow_add_part(current_part_full_name, experiment_parts,
                                 trace, full_name, type_name, constructs)
          IN  /\ experiment_parts' = r.parts
              /\ trace' = r.trace
              /\ calls' = << [full_name |-> full_name, type_name |-> type_name,
                              constructs |-> constructs, raised |-> r.raised,
                              parts_before |-> experiment_parts,
                              trace_before |-> trace] >>
    /\ runs' = runs + 1
    /\ route_name' = NoDecision
    /\ input_call' = NoInput
    /\ monitor' = monitor
    /\ old_trace_part_data' = old_trace_part_data
    /\ parsed_input' = parsed_input
    /\ UNCHANGED << mode, old_part_path, old_mode, config_vars, pc, path_index,
                    current_part_full_name, flow_stack, experiment_data,
                    new_experiment_data, file, prompts >>

SpecAdd == InitAdd /\ [][FlowAddPart]_vars

\* ------------------------------------------------- the viewer's model
\* ExperimentModel.__init__: the fields the viewer derives from the entries
\* (an empty dictionary is <<>>)
ExperimentModelInit ==
    [experiment_data |-> <<>>, part_path |-> <<>>, flow_stack |-> <<>>]

\* ExperimentModel.on_trace_entry
on_trace_entry(m, e) ==
    CASE e.event = "experiment_begin" ->
            [m EXCEPT !.experiment_data = e.experiment_data]
      [] e.event = "at_part" ->
            [m EXCEPT !.part_path = Append(@, e.part_name)]
      [] e.event = "step" ->
            [m EXCEPT !.experiment_data = e.data_after]
      [] e.event = "flow_begin" ->
            [m EXCEPT !.flow_stack = Append(@, e.flow_name)]
      [] e.event = "flow_end" ->
            IF m.flow_stack # <<>>
            THEN [m EXCEPT !.part_path = Append(@, Last(m.flow_stack)),
                           !.flow_stack = Front(@)]
            ELSE [m EXCEPT !.part_path = Append(@, <<>>)]
      [] OTHER -> m

\* the model after the entries of tr were fed to it in order
RECURSIVE ExperimentModelAfter(_)
ExperimentModelAfter(tr) ==
    IF tr = <<>> THEN ExperimentModelInit
    ELSE on_trace_entry(ExperimentModelAfter(Front(tr)), Last(tr))

\* --------------------------------------------------- tailing the trace file
\* A TraceMonitor reads the file while the engine writes it.  The file is
\* the sequence of texts that have reached it; the header, the separator and
\* the closing text end with a newline.
EndsLine(text) == text.text \in {"header", "separator", "closing"}

\* f.readline() at offset pos: the text up to the first newline, or all
\* there is when no newline has been written yet
readline(f, pos) ==
    LET ends == {k \in pos + 1 .. Len(f) : EndsLine(f[k])}
        last == IF ends = {} THEN Len(f)
                ELSE CHOOSE k \in ends : \A l \in ends : k <= l
    IN  SubSeq(f, pos + 1, last)

\* the text '{}' that is left of the closing text without its ']}'
FileEmptyObject == [text |-> "empty"]

\* monitor lines 55-59: current_line without ']}' or without its commas
StrippedLine(line) ==
    IF Last(line) = FileClosing THEN Append(Front(line), FileEmptyObject)
    ELSE IF Last(line) = FileSeparator THEN Front(line)
    ELSE line

\* json.loads of a stripped line: whether it is one JSON value, and the value
LoadsRaises(stripped) ==
    ~ /\ Len(stripped) = 1
      /\ stripped[1].text \in {"entry", "empty"}
Loads(stripped) ==
    IF stripped[1].text = "entry" THEN stripped[1].dict ELSE <<>>

\* TraceMonitor.monitor up to its loop
MonitorStarted ==
    [pc |-> "reading", pos |-> 0, buffer |-> <<>>, footer_reached |-> FALSE,
     trace_entries |-> <<>>]

\* monitor lines 42-63 for one complete line
ProcessLine(m, line) ==
    IF line[1] = FileHeader
    THEN [m EXCEPT !.buffer = <<>>]
    ELSE LET footer == Last(line) = FileClosing
             stripped == StrippedLine(line)
         IN  IF LoadsRaises(stripped)
             THEN [m EXCEPT !.buffer = <<>>, !.footer_reached = footer,
                            !.pc = "raised"]
             ELSE [m EXCEPT !.buffer = <<>>, !.footer_reached = footer,
                            !.trace_entries = Append(@, Loads(stripped)),
                            !.pc = IF footer THEN "returned" ELSE "reading"]

InitMonitor ==
    /\ mode = "normal"
    /\ old_part_path = <<>>
    /\ old_mode = "none"
    /\ runs = 1
    /\ part_types = TypeNames
    /\ initial_part_name = <<"start">>
    /\ pc = "open"
    /\ path_index = 0
    /\ current_part_full_name = None
    /\ flow_stack = <<>>
    /\ experiment_data = initial_values
    /\ new_experiment_data = initial_values
    /\ experiment_parts = {}
    /\ trace = <<>>
    /\ file = <<FileHeader>>
    /\ prompts = <<>>
    /\ calls = <<>>
    /\ route_name = NoDecision
    /\ input_call = NoInput
    /\ old_trace_part_data = NoData
    /\ parsed_input = <<>>
    /\ monitor = MonitorStarted

\* record inside run(): the entry and the separator reach the file together
RecordFlushed ==
    /\ pc = "open"
    /\ Len(trace) < MaxEntries
    /\ \E entry \in RecordedEntries :
          /\ trace' = Append(trace, entry)
          /\ file' = file \o RecordWrites(entry)
    /\ UNCHANGED << run_vars, config_vars, pc, path_index, current_part_full_name,
                    flow_stack, experiment_data, new_experiment_data,
                    experiment_parts, prompts, calls, route_name, input_call,
                    old_trace_part_data, parsed_input, monitor >>

\* record of an entry whose text fills the buffer of the file object: the
\* text of the entry reaches the file before the separator is written
RecordSpills ==
    /\ pc = "open"
    /\ Len(trace) < MaxEntries
    /\ \E entry \in RecordedEntries :
          /\ EntryEncodable(entry)
          /\ trace' = Append(trace, entry)
          /\ file' = Append(file, FileEntry(EntryDict(entry)))
    /\ pc' = "recording"
    /\ UNCHANGED << run_vars, config_vars, path_index, current_part_full_name,
                    flow_stack, experiment_data, new_experiment_data,
                    experiment_parts, prompts, calls, route_name, input_call,
                    old_trace_part_data, parsed_input, monitor >>

\* record lines 254-255: the separator, and the flush
RecordSeparator ==
    /\ pc = "recording"
    /\ file' = Append(file, FileSeparator)
    /\ pc' = "open"
    /\ UNCHANGED << run_vars, config_vars, path_index, current_part_full_name,
                    flow_stack, experiment_data, new_experiment_data,
                    experiment_parts, trace, prompts, calls, route_name,
                    input_call, old_trace_part_data, parsed_input, monitor >>

\* run() ends by leaving 'with self.new_trace': __exit__ finalizes the file
RunEndsFinalized ==
    /\ pc = "open"
    /\ file' = Append(file, FileClosing)
    /\ pc' = "closed"
    /\ UNCHANGED << run_vars, config_vars, path_index, current_part_full_name,
                    flow_stack, experiment_data, new_experiment_data,
                    experiment_parts, trace, prompts, calls, route_name,
                    input_call, old_trace_part_data, parsed_input, monitor >>

\* run() ends in _begin_experiment_run: the file was opened and
\* _construct_parts raises ConfigError at the first part, before the with
\* block is entered
RunEndsUnfinalized ==
    /\ pc = "open"
    /\ trace = <<>>
    /\ pc' = "abandoned"
    /\ UNCHANGED << run_vars, config_vars, path_index, current_part_full_name,
                    flow_stack, experiment_data, new_experiment_data,
                    experiment_parts, trace, file, prompts, calls, route_name,
                    input_call, old_trace_part_data, parsed_input, monitor >>

\* one iteration of the monitor's loop that finds new text; an iteration
\* that finds none sleeps and changes nothing
MonitorRead ==
    /\ monitor.pc = "reading"
    /\ monitor.pos < Len(file)
    /\ LET raw == readline(file, monitor.pos)
           read == [monitor EXCEPT !.pos = @ + Len(raw), !.buffer = @ \o raw]
       IN  monitor' = IF EndsLine(Last(raw))
                      THEN ProcessLine(read, read.buffer)
                      ELSE read
    /\ UNCHANGED << run_vars, config_vars, pc, path_index, current_part_full_name,
                    flow_stack, experiment_data, new_experiment_data,
                    experiment_parts, trace, file, prompts, calls, route_name,
                    input_call, old_trace_part_data, parsed_input >>

NextMonitor ==
    \/ RecordFlushed
    \/ RecordSpills
    \/ RecordSeparator
    \/ RunEndsFinalized
    \/ RunEndsUnfinalized
    \/ MonitorRead

SpecMonitor == InitMonitor /\ [][NextMonitor]_vars

\* the monitor runs in a thread of its own and is scheduled again and again
SpecMonitorFair == SpecMonitor /\ WF_vars(MonitorRead)

\* ================================================================== claims
SuccessfulSteps == SelectSeq(calls, LAMBDA c : c.m = "run_step" /\ c.ok)
StepEntries == OfEvent(trace, "step")
ExitStates == {"done", "config_error", "path_deviation", "input_error"}

\* path index of the visit that trace entry i belongs to
PathPos(i) == Cardinality({j \in 1 .. i : IsAtPart(trace[j])}) - 1

\* C1: the data store the (N+1)-th successfully completed Step starts with is
\* the data_after recorded for the N-th, whatever ran or failed in between,
\* and the committed store is the data_after of the last completed Step.
C1_StepSeesLastAfter ==
    /\ Len(SuccessfulSteps) = Len(StepEntries)
    /\ \A k \in 2 .. Len(SuccessfulSteps) :
          SuccessfulSteps[k].saw = StepEntries[k - 1].data_after
    /\ StepEntries # <<>> => experiment_data = Last(StepEntries).data_after

\* two completed Steps that changed the data, with a failed Step in between
C1_Witness ==
    \E i, j, k \in DOMAIN calls :
        /\ i < j /\ j < k
        /\ calls[i].m = "run_step" /\ calls[i].ok
        /\ calls[j].m = "run_step" /\ ~calls[j].ok
        /\ calls[k].m = "run_step" /\ calls[k].ok
        /\ calls[k].saw # initial_values
        /\ new_experiment_data # calls[k].saw

\* a step of the model in which run_step raised
StepAttemptFailed ==
    /\ Len(calls') = Len(calls) + 1
    /\ Last(calls').m = "run_step"
    /\ ~Last(calls').ok

\* C2: when run_step raises, after any set_output calls, the committed data
\* store after _run_part equals the committed data store before it.
C2_FailedStepRollsBack ==
    [][StepAttemptFailed => experiment_data' = experiment_data]_vars

\* run_step has just raised after a set_output that changed the staging copy
C2_Witness ==
    /\ calls # <<>>
    /\ Last(calls).m = "run_step"
    /\ ~Last(calls).ok
    /\ Last(trace).event = "error"
    /\ new_experiment_data # experiment_data

\* C3: a read of the data store made after a failed part and before the next
\* part starts (get_input inside end_flow) returns the committed values.
C3_EndFlowReadsCommitted ==
    \A i \in DOMAIN calls :
        calls[i].m = "end_flow" => calls[i].saw = calls[i].committed

\* C4: the flow stack depth equals the number of flow_begin entries minus the
\* number of flow_end entries of the trace.
C4_StackDepthMatchesTrace ==
    Len(flow_stack) =
        Len(OfEvent(trace, "flow_begin")) - Len(OfEvent(trace, "flow_end"))

\* C5: a Rerun of the trace of a Normal run records the at_part names of the
\* historical part path, terminal command included, and then stops.
C5_RerunRepeatsHistory ==
    (mode = "rerun" /\ old_mode = "normal" /\ pc = "done")
        => [i \in 1 .. Len(SelectSeq(trace, IsAtPart)) |->
                SelectSeq(trace, IsAtPart)[i].part_name]
            = [i \in 1 .. Len(old_part_path) |-> old_part_path[i].part_name]

\* C6: a Rerun of the trace of a Normal run never asks the operator.
C6_RerunNeverAsks ==
    (mode = "rerun" /\ old_mode = "normal") => prompts = <<>>

\* C7: in Continue mode the operator is never asked at a path index before
\* the last index of the history, and every researcher decision recorded at
\* such an index is the historical next name.
C7_ContinueReplaysThenAsks ==
    mode = "continue" =>
        /\ \A i \in DOMAIN prompts : prompts[i] >= Len(old_part_path) - 1
        /\ \A i \in DOMAIN trace :
              (trace[i].event = "researcher_decision"
                    /\ PathPos(i) < Len(old_part_path) - 1)
                => trace[i].next_part =
                     convert_to_short_name(old_part_path[PathPos(i) + 2].part_name)

\* a Continue run that replayed a historical decision and then asked
C7_Witness ==
    /\ mode = "continue"
    /\ prompts # <<>>
    /\ \E i \in DOMAIN trace :
          /\ trace[i].event = "researcher_decision"
          /\ PathPos(i) < Len(old_part_path) - 1

\* run() is about to visit quit
VisitsQuit ==
    /\ pc = "loop"
    /\ current_part_full_name = Quit
    /\ ~(path_index < Len(old_part_path)
            /\ old_part_path[path_index + 1].part_name # Quit)
OperatorQueried == Len(prompts') = Len(prompts) + 1

\* C8: at quit the operator is asked iff the mode is Continue and the index is
\* the last index of the history; before that index the historical next name
\* is used; in every other case the run loop terminates.
C8_QuitRule ==
    [][VisitsQuit =>
        /\ OperatorQueried <=>
              (mode = "continue" /\ path_index = Len(old_part_path) - 1)
        /\ path_index < Len(old_part_path) - 1 =>
              trace' = trace \o
                  << AtPartEntry(Quit),
                     ResearcherDecisionEntry(convert_to_short_name(
                         old_part_path[path_index + 2].part_name)) >>
        /\ (path_index >= Len(old_part_path) - 1
              /\ ~(mode = "continue" /\ path_index = Len(old_part_path) - 1))
              => pc' = "teardown"
      ]_vars

\* a Continue run asked the operator at the quit that ends its history
C8_Witness ==
    /\ mode = "continue"
    /\ prompts # <<>>
    /\ Last(prompts) = Len(old_part_path) - 1
    /\ get_part_path(trace)[Last(prompts) + 1].part_name = Quit
    /\ pc = "loop"

\* C9: while retracing, a live name that differs from the historical name at
\* its index aborts the run before an at_part entry is recorded for that index
\* and before any part method is called there.
C9_DeviationAbortsFirst ==
    [][(pc = "loop"
          /\ path_index < Len(old_part_path)
          /\ old_part_path[path_index + 1].part_name # current_part_full_name)
        => (pc' = "path_deviation" /\ trace' = trace /\ calls' = calls)]_vars

\* a retrace aborted at its second or a later position
C9_Witness ==
    /\ pc = "path_deviation"
    /\ path_index >= 1
    /\ Len(get_part_path(trace)) = path_index

\* C10: once the trace file was opened it is finalized on every exit path of
\* run(), a ConfigError raised while constructing the parts included.
C10_OpenedFileIsFinalized ==
    (pc \in ExitStates /\ file # "unopened") => file = "finalized"

\* a step of the model in which a part method raised
PartMethodRaised ==
    /\ Len(calls') = Len(calls) + 1
    /\ ~Last(calls').ok

\* an at_part entry recorded right after an error entry carries the null name
AtPartAfterErrorIsNull ==
    \A i \in 1 .. Len(trace) - 1 :
        (trace[i].event = "error" /\ trace[i + 1].event = "at_part")
            => trace[i + 1].part_name = None

\* C11: an exception raised by run_step, decide_route, begin_flow or end_flow
\* does not leave run(): the next destination becomes null, the loop goes on,
\* and the at_part entry that follows the error carries the null name.
C11_PartExceptionIsContained ==
    [][/\ PartMethodRaised =>
            /\ pc' = pc
            /\ pc = "loop" =>
                  /\ current_part_full_name' = None
                  /\ path_index' = path_index + 1
       /\ AtPartAfterErrorIsNull'
      ]_vars

\* an end_flow and another part method raised, and the null name was visited
C11_Witness ==
    /\ \E i, j \in DOMAIN calls :
          /\ ~calls[i].ok /\ calls[i].m = "end_flow"
          /\ ~calls[j].ok /\ calls[j].m # "end_flow"
    /\ \E i \in 1 .. Len(trace) - 1 :
          trace[i].event = "error" /\ trace[i + 1] = AtPartEntry(None)
    /\ pc = "loop"

\* a step of the model in which _run_part caught an exception
PartRunFailed ==
    /\ PartMethodRaised
    /\ Last(calls').m \in {"run_step", "decide_route", "begin_flow"}

C13_TeardownClosesFlowsInReverse ==
    [][/\ (pc = "teardown" /\ flow_stack # <<>>) =>
              /\ Len(calls') = Len(calls) + 1
              /\ Last(calls').m = "end_flow"
              /\ Last(calls').part = Last(flow_stack)
              /\ flow_stack' = Front(flow_stack)
              /\ Len(trace') = Len(trace) + 1
              /\ Last(trace') \in
                    {[event |-> "flow_end", flow_name |-> Last(flow_stack),
                      part_data |-> <<>>],
                     [event |-> "error", part_name |-> Last(flow_stack)]}
              /\ pc' = "teardown"
       /\ (pc = "teardown" /\ flow_stack = <<>>) =>
              /\ calls' = calls
              /\ trace' = Append(trace, [event |-> "experiment_end"])
              /\ pc' = "done"
       /\ pc' = "done" =>
              /\ flow_stack' = <<>>
              /\ Last(trace').event = "experiment_end"
      ]_vars

\* quit with two flows open: the inner end_flow raised, the outer one was
\* still called, and the run ended
C13_Witness ==
    /\ pc = "done"
    /\ flow_stack = <<>>
    /\ Len(calls) >= 2
    /\ Len(trace) >= 4
    /\ LET n == Len(calls)
           k == Len(trace)
       IN  /\ calls[n - 1].m = "end_flow" /\ calls[n - 1].part = <<"f", "g">>
           /\ ~calls[n - 1].ok
           /\ calls[n].m = "end_flow" /\ calls[n].part = <<"f">> /\ calls[n].ok
           /\ trace[k - 3] = AtPartEntry(Quit)
           /\ trace[k - 2] = ErrorEntry(<<"f", "g">>)
           /\ trace[k - 1] = FlowEndEntry(<<"f">>)
           /\ trace[k] = ExperimentEndEntry

\* the result of pairing the part method calls of a run: the flows entered
\* (begin_flow returned) and not yet ended, innermost last, or Unpaired when
\* some end_flow was not for the innermost flow open at that moment
Unpaired == << <<"~unpaired">> >>
RECURSIVE OpenFlows(_)
OpenFlows(cs) ==
    IF cs = <<>> THEN <<>>
    ELSE LET prev == OpenFlows(Front(cs))
             c == Last(cs)
         IN  IF prev = Unpaired THEN Unpaired
             ELSE IF c.m = "begin_flow" /\ c.ok THEN Append(prev, c.part)
             ELSE IF c.m = "end_flow"
                  THEN IF prev # <<>> /\ Last(prev) = c.part
                       THEN Front(prev) ELSE Unpaired
             ELSE prev

\* C14: when run() has ended, every flow entered in the run has had end_flow
\* called exactly once, nested flows innermost first.
C14_EveryEnteredFlowIsEnded ==
    pc \in ExitStates => OpenFlows(calls) = <<>>

\* the loop is about to handle done inside a flow
DoneInsideFlow ==
    /\ AtLoopTop
    /\ current_part_full_name = Done
    /\ flow_stack # <<>>

\* next_part[""] of flow F as a full name under the given parent stack
NextAfterFlow(F, parent) ==
    LET short == Get(NextPartOf(F), "")
    IN  IF short \in {None, Done, Quit} \/ parent = <<>>
        THEN short
        ELSE Last(parent) \o short

\* C15 as stated: at done inside a flow the top flow F is popped, F.end_flow()
\* is called, and the next name is F's next_part[""] resolved against the
\* stack after the pop, or null when F has none.
C15_DoneFollowsNextPart ==
    [][DoneInsideFlow =>
          /\ flow_stack' = Front(flow_stack)
          /\ Len(calls') = Len(calls) + 1
          /\ Last(calls').m = "end_flow"
          /\ Last(calls').part = Last(flow_stack)
          /\ current_part_full_name' =
                NextAfterFlow(Last(flow_stack), Front(flow_stack))
      ]_vars

\* C15 amended: the same when F.end_flow() returns; when it raises, the next
\* name is null whatever F's next_part[""] is.
C15_DoneFollowsNextPartUnlessRaised ==
    [][DoneInsideFlow =>
          /\ flow_stack' = Front(flow_stack)
          /\ Len(calls') = Len(calls) + 1
          /\ Last(calls').m = "end_flow"
          /\ Last(calls').part = Last(flow_stack)
          /\ path_index' = path_index + 1
          /\ current_part_full_name' =
                IF Last(calls').ok
                THEN NextAfterFlow(Last(flow_stack), Front(flow_stack))
                ELSE None
      ]_vars

\* the nested flow f.g has just ended normally inside f: the next name is its
\* next_part[""] under f
C15_Witness ==
    /\ pc = "loop"
    /\ calls # <<>>
    /\ Last(calls) = Call("end_flow", <<"f", "g">>, TRUE)
    /\ Last(trace) = FlowEndEntry(<<"f", "g">>)
    /\ flow_stack = << <<"f">> >>
    /\ current_part_full_name = <<"f", "b">>

\* the loop is about to handle done at the top level
DoneOutsideFlows ==
    /\ AtLoopTop
    /\ current_part_full_name = Done
    /\ flow_stack = <<>>

\* C16: done with an empty flow stack calls no end_flow and makes quit the
\* next name, which the loop then visits like any other quit.
C16_TopLevelDoneIsQuit ==
    [][DoneOutsideFlows =>
          /\ calls' = calls
          /\ prompts' = prompts
          /\ flow_stack' = <<>>
          /\ trace' = Append(trace, [event |-> "at_part", part_name |-> Done])
          /\ current_part_full_name' = Quit
          /\ path_index' = path_index + 1
          /\ pc' = "loop"
      ]_vars

\* done was visited at the top level and the loop now stands at quit
C16_Witness ==
    /\ pc = "loop"
    /\ flow_stack = <<>>
    /\ current_part_full_name = Quit
    /\ Last(trace) = AtPartEntry(Done)

\* C17: _convert_to_full_name returns the short name unchanged when it is
\* null, done or quit, or when no flow is open; otherwise it returns the name
\* of the innermost open flow, a dot, and the short name.
C17_FullNameOfShortName ==
    [][pc = "resolve" =>
          current_part_full_name' =
              IF \/ current_part_full_name = <<>>
                 \/ current_part_full_name \in {<<"done">>, <<"quit">>}
                 \/ Len(flow_stack) = 0
              THEN current_part_full_name
              ELSE flow_stack[Len(flow_stack)] \o current_part_full_name
      ]_vars

\* short name g was resolved with f and f.g open, giving f.g.g
C17_Witness ==
    /\ pc = "resolved"
    /\ flow_stack = << <<"f">>, <<"f", "g">> >>
    /\ current_part_full_name = <<"f", "g", "g">>

\* a step of the model that records an at_part entry (always the first entry
\* the step appends) while some flow is open
AtPartRecordedInsideFlow ==
    /\ flow_stack # <<>>
    /\ Len(trace') > Len(trace)
    /\ trace'[Len(trace) + 1].event = "at_part"

\* C18: an at_part entry recorded while the flow stack is non-empty names
\* null, a reserved command, or a name that begins with the innermost open
\* flow's name and a dot.
C18_AtPartIsUnderInnermostFlow ==
    [][AtPartRecordedInsideFlow =>
          LET n == trace'[Len(trace) + 1].part_name
              top == flow_stack[Len(flow_stack)]
          IN  \/ n = <<>>
              \/ n \in {<<"done">>, <<"quit">>}
              \/ /\ Len(n) > Len(top)
                 /\ SubSeq(n, 1, Len(top)) = top
      ]_vars

\* inside f: f.g was entered and f.g.t visited there, f.g was ended, and the
\* name that followed, f.b, was recorded with f as the innermost flow
C18_Witness ==
    /\ flow_stack = << <<"f">> >>
    /\ \E i, j \in DOMAIN trace :
          /\ i < j
          /\ j < Len(trace)
          /\ trace[i] = AtPartEntry(<<"f", "g", "t">>)
          /\ trace[j] = FlowEndEntry(<<"f", "g">>)
          /\ trace[j + 1] = AtPartEntry(<<"f", "b">>)

\* the loop is about to handle a null or unregistered name
UndecidedOrUnknown ==
    /\ AtLoopTop
    /\ current_part_full_name \notin {<<"done">>, <<"quit">>}
    /\ current_part_full_name = <<>> \/ current_part_full_name \notin experiment_parts

\* the step recorded the visit and exactly one researcher_decision entry
\* carrying the short name val
DecisionRecorded(val) ==
    trace' = trace \o
        << [event |-> "at_part", part_name |-> current_part_full_name],
           [event |-> "researcher_decision", next_part |-> val] >>

\* C19: at a null or unregistered name no part method is called; the next
\* name is the historical next name if the history has an entry after the
\* current index, otherwise the operator is asked; either way exactly one
\* researcher_decision entry with the chosen short name is recorded.
C19_UndecidedAsksOnce ==
    [][UndecidedOrUnknown =>
          /\ calls' = calls
          /\ IF path_index + 1 < Len(old_part_path)
             THEN /\ prompts' = prompts
                  /\ DecisionRecorded(
                        LET n == old_part_path[path_index + 2].part_name
                        IN  IF n = <<>> \/ n \in {<<"done">>, <<"quit">>}
                            THEN n ELSE << n[Len(n)] >>)
             ELSE /\ prompts' = Append(prompts, path_index)
                  /\ \E val \in ValidAnswers(experiment_parts, flow_stack) :
                        DecisionRecorded(val)
      ]_vars

\* a step of the model in which the operator prompt returned an answer
OperatorAnswered ==
    /\ Len(prompts') = Len(prompts) + 1
    /\ pc' = "loop"

\* the registered parts that are direct children of the innermost open flow
\* (the top-level parts when no flow is open)
DirectChildren ==
    IF flow_stack = <<>>
    THEN {n \in experiment_parts : Len(n) = 1}
    ELSE {n \in experiment_parts :
            /\ Len(n) = Len(Last(flow_stack)) + 1
            /\ SubSeq(n, 1, Len(n) - 1) = Last(flow_stack)}

\* C20: the value the operator prompt returns is done, quit or the short name
\* of a registered direct child of the current flow, so the name visited next
\* is a reserved command or a registered part, never null.
C20_OperatorAnswerIsReachable ==
    [][OperatorAnswered =>
          LET val == Last(trace').next_part
          IN  /\ Last(trace').event = "researcher_decision"
              /\ \/ val \in {<<"done">>, <<"quit">>}
                 \/ \E n \in DirectChildren : val = << n[Len(n)] >>
              /\ current_part_full_name' # <<>>
              /\ \/ current_part_full_name' \in {<<"done">>, <<"quit">>}
                 \/ current_part_full_name' \in DirectChildren
      ]_vars

\* asked inside flow f, the operator chose its child g: f.g is visited next
C20_Witness ==
    /\ pc = "loop"
    /\ flow_stack = << <<"f">> >>
    /\ prompts # <<>>
    /\ Last(prompts) = path_index - 1
    /\ trace # <<>>
    /\ Last(trace) = ResearcherDecisionEntry(<<"g">>)
    /\ current_part_full_name = <<"f", "g">>

\* a step of the model in which a Step's run_step returned
StepCompleted ==
    /\ Len(calls') = Len(calls) + 1
    /\ Last(calls').m = "run_step"
    /\ Last(calls').ok

\* C21: within a run the committed data store changes only when a Step
\* completes: a Decision, a flow begin or end, an operator or historical
\* decision and a failed part all leave it as it was.
C21_OnlyCompletedStepsCommit ==
    [][(runs' = runs /\ ~StepCompleted) => experiment_data' = experiment_data]_vars

\* a Step failed, then a Decision ran to completion: the committed store is
\* still the one the failed Step started from
C21_Witness ==
    /\ Len(calls) >= 2
    /\ LET n == Len(calls)
       IN  /\ calls[n - 1].m = "run_step" /\ ~calls[n - 1].ok
           /\ calls[n].m = "decide_route" /\ calls[n].ok
           /\ experiment_data = calls[n - 1].committed
           /\ Last(trace).event = "decision"

\* what a trace entry says about the route taken: its event, the part it
\* names and the next part it records
RouteOf(e) ==
    CASE e.event = "at_part" -> << "at_part", e.part_name >>
      [] e.event = "step" -> << "step", e.step_name >>
      [] e.event = "decision" -> << "decision", e.decision_name, e.next_part >>
      [] OTHER -> << e.event >>
RouteEvents ==
    {"at_part", "step", "decision", "experiment_end", "researcher_decision", "error"}
RouteTrace ==
    LET sel == SelectSeq(trace, LAMBDA e : e.event \in RouteEvents)
    IN  [i \in 1 .. Len(sel) |-> RouteOf(sel[i])]

\* the Normal run from start in which start, ask and b ran without failure
\* and nothing else was called or asked, ask having returned route go
StartAskBRun ==
    /\ mode = "normal"
    /\ initial_part_name = <<"start">>
    /\ pc = "done"
    /\ prompts = <<>>
    /\ [i \in 1 .. Len(calls) |-> << calls[i].m, calls[i].part, calls[i].ok >>] =
          << << "run_step", <<"start">>, TRUE >>,
             << "decide_route", <<"ask">>, TRUE >>,
             << "run_step", <<"b">>, TRUE >> >>

DecisionCompleted ==
    /\ Len(calls') = Len(calls) + 1
    /\ Last(calls').m = "decide_route"
    /\ Last(calls').ok

C24_RouteNameUsedAsPartName ==
    [][(/\ DecisionCompleted
        /\ route_name'.object
        /\ route_name'.can_use_part_name
        /\ route_name'.route_name \notin DOMAIN NextPartOf(current_part_full_name)) =>
          /\ Last(trace').next_part = << route_name'.route_name >>
          /\ current_part_full_name' =
                convert_to_full_name(<< route_name'.route_name >>, flow_stack)
      ]_vars

\* a step of the model in which run_step asked get_input for an argument
\* without input_names mapping, not optional and without global fallback
RequiredInputUnmapped ==
    /\ Len(calls') = Len(calls) + 1
    /\ Last(calls').m = "run_step"
    /\ input_call'.called
    /\ ~input_call'.optional
    /\ ~input_call'.can_use_global
    /\ input_call'.argument_name \notin DOMAIN InputNamesOf(current_part_full_name)

\* C25: get_input for an unmapped argument, with optional and can_use_global
\* false, raises ConfigError without reading the data store; the engine
\* records an error entry for the Step, commits nothing the Step wrote and
\* leaves the next destination undecided.
C25_UnmappedRequiredInputFails ==
    [][RequiredInputUnmapped =>
          /\ input_call'.outcome.raised
          /\ input_call'.outcome.read = ""
          /\ ~Last(calls').ok
          /\ trace' = trace \o
                << [event |-> "at_part", part_name |-> current_part_full_name],
                   [event |-> "error", part_name |-> current_part_full_name] >>
          /\ experiment_data' = experiment_data
          /\ current_part_full_name' = <<>>
      ]_vars

\* Step b wrote x = 1 and then asked for the unmapped required argument arg:
\* the write is not committed and the loop stands at the null name
C25_Witness ==
    /\ pc = "loop"
    /\ input_call = InputCall("arg", FALSE, FALSE, InputRaised)
    /\ Last(calls).part = <<"b">>
    /\ new_experiment_data.x = 1
    /\ experiment_data.x = 0
    /\ Last(trace) = ErrorEntry(<<"b">>)
    /\ current_part_full_name = None
\* ---------------------------------------------------------------------------
\* C27: whenever a part method is called at step index i, what
\* load_data_from_retrace_entry returns to it is the part_data of piece i of
\* the history when i is inside the history, and null when i is past its end
\* or the mode is Normal; it is never the part_data of another index.
C27_RetraceDataIsOfThisIndex ==
    [][Len(calls') = Len(calls) + 1
        => /\ old_trace_part_data' =
                  (IF path_index < Len(old_part_path)
                   THEN old_part_path[path_index + 1].part_data
                   ELSE <<>>)
           /\ (mode = "normal" => old_trace_part_data' = <<>>)]_vars

\* a retrace in which the step at index 0 was handed the dictionary its
\* historical visit saved, and the history holds no data at index 1
C27_Witness ==
    /\ mode # "normal"
    /\ path_index = 1
    /\ Len(old_part_path) > 1
    /\ old_part_path[1].part_data = <<"d">>
    /\ old_part_path[2].part_data = <<>>
    /\ old_trace_part_data = <<"d">>
    /\ calls # <<>>
    /\ Last(calls).m = "run_step"
    /\ Last(calls).part = <<"start">>

\* ---------------------------------------------------------------------------
\* the part_data the visit that starts at entry i logged: that of its step,
\* decision, flow_begin or flow_end entry, null when it has none
VisitEnd(tr, i) ==
    LET later == {j \in i + 1 .. Len(tr) : IsAtPart(tr[j])}
    IN  IF later = {} THEN Len(tr)
        ELSE (CHOOSE j \in later : \A k \in later : j <= k) - 1
VisitPartData(tr, i) ==
    LET done == {j \in i + 1 .. VisitEnd(tr, i) : tr[j].event \in PartDataEvents}
    IN  IF done = {} THEN <<>>
        ELSE tr[CHOOSE j \in done : \A k \in done : j <= k].part_data
AtPartIndexes(tr) == SelectSeq([i \in 1 .. Len(tr) |-> i], LAMBDA i : IsAtPart(tr[i]))

\* C26: the part path has one piece per at_part entry, in trace order, and
\* each piece carries the part_data its visit logged, also when the part
\* recorded custom, part_add or part_remove entries before its completion
\* entry.
C26_PieceCarriesVisitPartData ==
    pc = "loaded"
        => /\ Len(old_part_path) = Len(AtPartIndexes(trace))
           /\ \A k \in 1 .. Len(old_part_path) :
                  /\ old_part_path[k].part_name = trace[AtPartIndexes(trace)[k]].part_name
                  /\ old_part_path[k].part_data =
                        VisitPartData(trace, AtPartIndexes(trace)[k])

\* ---------------------------------------------------------------------------
\* C28: an entry of any of the twelve variants, serialized as record() does
\* and parsed back as _parse_input_trace does, is an entry of the same variant
\* with the same fields, the timestamp included.
C28_RoundTripKeepsEveryField ==
    pc = "parsed" => parsed_input[1] = trace[1]

\* ---------------------------------------------------------------------------
\* the entries of the file, parsed, in the order they were appended
ParsedInFileOrder == [k \in 1 .. Len(RawTrace(file)) |-> ParseEntry(RawTrace(file)[k])]
AtPartNames(entries) ==
    LET at == SelectSeq(entries, LAMBDA e : e.event = PyStr("at_part"))
    IN  [k \in 1 .. Len(at) |-> at[k].part_name]

\* C29: the entries of a trace reloaded from a finalized file are in the
\* order in which they were appended, whatever their timestamps, so the
\* at_part names of the reloaded trace are those the run recorded, in order.
C29_ReloadKeepsAppendOrder ==
    pc = "loaded"
        => /\ parsed_input = ParsedInFileOrder
           /\ AtPartNames(parsed_input) = AtPartNames(ParsedInFileOrder)

\* ---------------------------------------------------------------------------
\* what the first k entries of the trace put into the file
RECURSIVE WrittenFor(_, _)
WrittenFor(entries, k) ==
    IF k = 0 THEN <<>> ELSE WrittenFor(entries, k - 1) \o RecordWrites(entries[k])

\* C30: until finalization the file is the header followed by every
\* recorded entry, once and in append order, without the closing text; after
\* finalization it is that text followed by the closing text, one well-formed
\* JSON document, and entries recorded later are not in it.
C30_FinalizedFileIsOneDocument ==
    /\ pc = "open"
          => /\ file = <<FileHeader>> \o WrittenFor(trace, Len(trace))
             /\ \A i \in DOMAIN file : file[i].text \in {"header", "entry", "separator"}
    /\ pc \in {"closed", "loaded", "load_error"}
          => /\ WellFormedFile(file)
             /\ \E k \in 0 .. Len(trace) :
                    file = <<FileHeader>> \o WrittenFor(trace, k) \o <<FileClosing>>

\* ---------------------------------------------------------------------------
\* an entry of the file that lacks the event, or whose event is not one of
\* the twelve names
BadEvent(raw) ==
    \/ "event" \notin DOMAIN raw
    \/ raw.event.json # "string"
    \/ raw.event.s \notin KnownEvents
FileHasBadEvent == \E k \in 1 .. Len(RawTrace(file)) : BadEvent(RawTrace(file)[k])
FileHasBadEntry ==
    \E k \in 1 .. Len(RawTrace(file)) :
        DOMAIN RawTrace(file)[k] # {} /\ BadEvent(RawTrace(file)[k])

\* C31 as stated: loading a file that holds an entry whose event is missing
\* or unknown fails and yields no trace; no such entry is skipped.
C31_BadEventFailsLoad ==
    (pc \in {"loaded", "load_error"} /\ FileHasBadEvent)
        => pc = "load_error" /\ parsed_input = <<>>

\* C31, amended: loading a file that holds a non-empty entry whose event is
\* missing or unknown fails and yields no trace; the empty object, the only
\* entry without an event that is skipped, is never turned into an entry.
C31_NonEmptyBadEventFailsLoad ==
    /\ (pc \in {"loaded", "load_error"} /\ FileHasBadEntry)
          => pc = "load_error" /\ parsed_input = <<>>
    /\ pc = "loaded"
          => Len(parsed_input) =
                Len(SelectSeq(RawTrace(file), LAMBDA raw : DOMAIN raw # {}))

\* a load that failed on a file whose only bad entry lacks the event, after
\* entries that parse
C31_Witness ==
    /\ pc = "load_error"
    /\ Len(RawTrace(file)) = 3
    /\ RawEntryParses(RawTrace(file)[1])
    /\ RawTrace(file)[2] = <<>>
    /\ "event" \notin DOMAIN RawTrace(file)[3]
    /\ DOMAIN RawTrace(file)[3] # {}

\* ---------------------------------------------------------------------------
\* the type name of some configured part is not in the registry of part types
SomeTypeNameAbsent == \E n \in PartNames : TypeNameOf(n) \notin part_types

\* C32: when the type name of a configured part is absent from the registry,
\* the run ends with a ConfigError during part construction: no
\* experiment_begin entry and no at_part entry is ever recorded, and no part
\* method is ever called.
C32_AbsentTypeFailsConstruction ==
    SomeTypeNameAbsent
        => /\ pc \in {"init", "config_error"}
           /\ OfEvent(trace, "experiment_begin") = <<>>
           /\ OfEvent(trace, "at_part") = <<>>
           /\ calls = <<>>
           /\ prompts = <<>>

\* a construction that failed after parts of known types had been added
C32_Witness ==
    /\ SomeTypeNameAbsent
    /\ pc = "config_error"
    /\ OfEvent(trace, "part_add") # <<>>

\* the last add_part call named a part outside the calling flow
AddOutOfScope ==
    /\ calls # <<>>
    /\ ~InFlowScope(current_part_full_name, calls[1].full_name)

\* C33: Flow.add_part with a full name that does not begin with the flow's
\* own full name followed by "." raises ConfigError and leaves the part
\* registry and the trace unchanged
C33_OutOfScopeAddRejected ==
    AddOutOfScope =>
        /\ calls[1].raised
        /\ experiment_parts = calls[1].parts_before
        /\ trace = calls[1].trace_before

\* an out-of-scope add of a constructible part of a known type, made after
\* an earlier add had put a part into the registry and the trace
C33_Witness ==
    /\ AddOutOfScope
    /\ calls[1].type_name \in TypeNames
    /\ calls[1].constructs
    /\ calls[1].full_name = <<"fx", "t">>
    /\ trace # <<>>

\* C40: whenever _add_part raises ConfigError, the registry and the trace
\* are the same as before the call
C40_FailedAddChangesNothing ==
    (calls # <<>> /\ calls[1].raised) =>
        /\ experiment_parts = calls[1].parts_before
        /\ trace = calls[1].trace_before

\* this step is a begin_flow call that raises
BeginFlowRaises ==
    /\ Len(calls') = Len(calls) + 1
    /\ Last(calls').m = "begin_flow"
    /\ ~Last(calls').ok

\* the state a raising begin_flow leaves behind
AfterBeginFlowRaised ==
    /\ calls # <<>>
    /\ Last(calls).m = "begin_flow"
    /\ ~Last(calls).ok
    /\ trace # <<>>
    /\ Last(trace) = ErrorEntry(Last(calls).part)

\* C36: if begin_flow raises, the flow stack is unchanged, no flow_begin
\* entry is recorded, end_flow is not called for the attempt, and the
\* operator's next choice is resolved against the flow that was open before
C36_FailedBeginFlowLeavesStack ==
    [][ /\ BeginFlowRaises =>
             /\ flow_stack' = flow_stack
             /\ OfEvent(trace', "flow_begin") = OfEvent(trace, "flow_begin")
             /\ SelectSeq(calls', LAMBDA c : c.m = "end_flow")
                   = SelectSeq(calls, LAMBDA c : c.m = "end_flow")
             /\ AfterBeginFlowRaised'
        /\ (AfterBeginFlowRaised /\ Len(prompts') > Len(prompts)
               /\ Last(trace').event = "researcher_decision") =>
             current_part_full_name' =
                convert_to_full_name(Last(trace').next_part, flow_stack) ]_vars

\* begin_flow of f.g raised inside f, and the operator then chose a part of f
C36_Witness ==
    /\ Len(trace) >= 3
    /\ trace[Len(trace) - 2] = ErrorEntry(<<"f", "g">>)
    /\ Last(trace).event = "researcher_decision"
    /\ Last(calls).m = "begin_flow"
    /\ ~Last(calls).ok
    /\ flow_stack = << <<"f">> >>
    /\ current_part_full_name \notin COMMAND_NAMES
    /\ IsPrefix(<<"f">>, current_part_full_name)

\* C37: in every reachable state the flow stack is a strict nesting chain:
\* each element above the bottom begins with the element directly below it
\* followed by ".", so no flow name occurs twice on the stack
C37_FlowStackIsNestingChain ==
    /\ \A i \in 2 .. Len(flow_stack) :
          /\ IsPrefix(flow_stack[i - 1], flow_stack[i])
          /\ Len(flow_stack[i]) > Len(flow_stack[i - 1])
    /\ \A i, j \in 1 .. Len(flow_stack) : flow_stack[i] = flow_stack[j] => i = j

\* a flow open inside another flow
C37_Witness ==
    /\ Len(flow_stack) = 2
    /\ flow_stack[2] = <<"f", "g">>

OutcomeEvents ==
    {"step", "decision", "flow_begin", "flow_end", "error", "researcher_decision"}
IgnoredEvents == {"custom", "part_add", "part_remove"}

\* the entries strictly between two consecutive at_part entries i and j
ConsecutiveAtParts(tr, i, j) ==
    /\ i < j
    /\ tr[i].event = "at_part"
    /\ tr[j].event = "at_part"
    /\ \A k \in i + 1 .. j - 1 : tr[k].event # "at_part"
OneOutcomeBetween(tr, i, j) ==
    LET between == {k \in i + 1 .. j - 1 : tr[k].event \notin IgnoredEvents}
    IN  /\ Cardinality(between) = 1
        /\ \A k \in between : tr[k].event \in OutcomeEvents

\* C38: between any two consecutive at_part entries of a trace, ignoring
\* custom, part_add and part_remove entries, there is exactly one outcome
\* entry, one of step, decision, flow_begin, flow_end, error or
\* researcher_decision, also for the visit of 'done' with no flow open
C38_OneOutcomePerVisit ==
    \A i, j \in 1 .. Len(trace) :
        ConsecutiveAtParts(trace, i, j) => OneOutcomeBetween(trace, i, j)

\* C39: the viewer's ExperimentModel, fed the entries of the run's trace in
\* append order, has the engine's flow stack and the engine's committed
\* data after each entry, also when begin_flow or end_flow raises
C39_ViewerModelRefinesEngine ==
    OfEvent(trace, "experiment_begin") # <<>> =>
        /\ ExperimentModelAfter(trace).flow_stack = flow_stack
        /\ ExperimentModelAfter(trace).experiment_data = experiment_data

\* the JSON objects of the entries the engine recorded, in append order
RecordedObjects == [k \in 1 .. Len(trace) |-> EntryDict(trace[k])]

\* C34: a trace monitor that tails the file while the engine writes it
\* delivers exactly the entries the engine recorded, each once and in append
\* order, whatever the interleaving of writes and reads, and never an entry
\* the engine did not record
C34_MonitorDeliversRecordedEntries ==
    /\ Len(monitor.trace_entries) <= Len(trace)
    /\ \A k \in 1 .. Len(monitor.trace_entries) :
          monitor.trace_entries[k] = RecordedObjects[k]
    /\ monitor.pc = "returned" => Len(monitor.trace_entries) = Len(trace)

\* run() has ended
RunEnded == pc \in {"closed", "abandoned"}

\* C35: under fair scheduling of the monitor, monitor() eventually returns
\* after run() has ended, on every exit path of run() that happens after
\* the trace file was opened
C35_MonitorReturnsAfterRun == RunEnded ~> (monitor.pc = "returned")

====
